---------------------------- MODULE Spec2Model ----------------------------
(***************************************************************************)
(* Model of the TEA tracker page (src/app/page.tsx): the streak engine     *)
(* calculateStreakFromLogs and the page handlers that feed it.             *)
(*                                                                         *)
(* Time is an integer number of milliseconds counted from a UTC midnight   *)
(* (the value of Date.getTime() minus a fixed origin).  An ISO timestamp   *)
(* string (Date.toISOString) carries exactly that millisecond value, so a  *)
(* LogEntry's timestamp is modelled by the integer.  The viewer's time     *)
(* zone is a fixed offset tz with local time = instant + tz.               *)
(***************************************************************************)
EXTENDS Integers, Sequences, FiniteSets, TLC

VARIABLES
    logs,               \* useState<LogEntry[]>: sequence of [id, timestamp]
    streakData,         \* useState<StreakData>
    now,                \* the wall clock (Date.now())
    tz,                 \* viewer's UTC offset in ms
    pc,                 \* "build" | "done": an engine call on its own;
                        \* "mount" | "page": the page before and after its mount effect
    stored,             \* localStorage 'tea-logs': Null or Some(list)
    lastSubmit,         \* localStorage 'last-tea-submit': Null or Some(ms)
    isAuthenticated,    \* useState(false)
    pendingSignOuts,    \* calls of handleLogout waiting on supabase.auth.signOut()
    sessionPending,     \* initializeAuth is waiting on supabase.auth.getSession()
    isSubmitting,       \* useState(false): the submit button is disabled
    editingTimestamp,   \* useState<string | null>: id of the row being edited
    editTimestampValue, \* useState(''): Null for '', else Some(local ms)
    lastOp,             \* the handler that ran last and its outcome
    walk,               \* the engine's locals while its for loop runs, else Null
    calls,              \* per caller, an engine call in flight or returned:
                        \* its input list, its locals and its result
    selectPending,      \* runs of the Supabase-backed loadLogs waiting on
                        \* their select
    currentPage,        \* useState(1): page of the history shown
    isSimplifiedMode,   \* useState(false)
    simplifiedStored,   \* localStorage 'tea-simplified-mode': Null or Some(BOOLEAN)
    insertPending,      \* Supabase-backed handleSubmit waiting on its insert:
                        \* Null or Some([newLog, logs]) as the call captured them
    lastAccepted        \* Null or Some(instant) of the most recent handleSubmit
                        \* that created an entry, when its timer was set

vars == <<logs, streakData, now, tz, pc, stored, lastSubmit,
          isAuthenticated, pendingSignOuts, sessionPending, isSubmitting, editingTimestamp,
          editTimestampValue, lastOp, walk, calls, currentPage, isSimplifiedMode,
          simplifiedStored, insertPending, selectPending, lastAccepted>>

pageVars == <<stored, lastSubmit, isAuthenticated, pendingSignOuts, sessionPending, isSubmitting,
              editingTimestamp, editTimestampValue, lastOp, currentPage,
              isSimplifiedMode, simplifiedStored, insertPending, selectPending,
              lastAccepted>>

---------------------------------------------------------------------------
(* Units and program constants *)

MsPerMinute == 60000
MsPerHour == 3600000
MsPerDay == 24 * MsPerHour

\* now - parseInt(lastSubmit) < 5000
RateLimitMs == 5000

\* 36 * 60 * 60 * 1000
GraceMs == 36 * 60 * 60 * 1000

\* Math.min(..., 8)
DailiesCap == 8

(* Bounds of the model *)

\* calendar days 0..MaxDay of instants offered to the engine
MaxDay == 3
\* longest entry list built from arbitrary instants
MaxLen == 3
\* longest entry list built on a single instant (many entries on one day)
MaxBurst == 9
\* longest entry list of which every permutation is tried
PermLen == 3
\* longest history found in localStorage when the page is opened
MaxStored == 1
\* longest history the page is taken to
MaxLogs == 2
\* longest history the page is taken to when it opens on a long stored one
MaxPaged == 11
\* steps of the clock during a visit of a few seconds
MaxTicks == 3
\* the longest history of daily entries
MaxStreak == 29

\* hours of the day at which entries and evaluation instants are placed
HourMarks == {0, 1, 12, 13}

Instants == {d * MsPerDay + h * MsPerHour : d \in 0..MaxDay, h \in HourMarks}

\* evaluation instants: the marks of the last day but one, so that entries
\* lie up to MaxDay - 1 days before the evaluation day and up to a day after it
NowInstants ==
    {t \in Instants : t >= (MaxDay - 1) * MsPerDay /\ t < MaxDay * MsPerDay}

TzOffsets == {0, -MsPerHour}

\* days followed by the page's clock
MaxPageDay == 2

\* instants of the page's clock: noon of each day
PageInstants == {d * MsPerDay + 12 * MsPerHour : d \in 0..MaxPageDay}

\* instants of the entries and the clock of a walk: noon of each day
WalkInstants == {d * MsPerDay + 12 * MsPerHour : d \in 0..MaxDay}

---------------------------------------------------------------------------
(* Nullable values: null is the empty tuple, a value v is <<v>> *)

Null == <<>>
Some(v) == <<v>>

---------------------------------------------------------------------------
(* Callers of the engine followed at once *)

MaxCallers == 2
\* longest list passed by a caller
MaxCallLen == 2

Callers == 1..MaxCallers

\* a caller that has made no call
idleCall == [phase |-> "idle", input |-> <<>>, locals |-> Null, result |-> Null]

NoCalls == [c \in Callers |-> idleCall]

---------------------------------------------------------------------------
(* Date conversions *)

\* variant: the UTC calendar date, as toISOString().slice(0, 10) gives it
toDateString_Utc(t, zone) == t \div MsPerDay

\* new Date(t).toDateString(): the local calendar date of instant t,
\* represented by the number of the local day
toDateString(t, zone) == (t + zone) \div MsPerDay

\* new Date(dateString).getTime(): local midnight of that calendar date
dateStringTime(key, zone) == key * MsPerDay - zone

---------------------------------------------------------------------------
(* The streak engine *)

\* variant: the neutral summary starts at tier 0
neutralSummary_TierZero ==
    [dailiesCount |-> 0, dayCount |-> 0, weekCount |-> 0, monthCount |-> 0,
     yearCount |-> 0, currentTier |-> 0, lastLogDate |-> Null,
     streakStartDate |-> Null]

neutralSummary ==
    [dailiesCount |-> 0, dayCount |-> 0, weekCount |-> 0, monthCount |-> 0,
     yearCount |-> 0, currentTier |-> 1, lastLogDate |-> Null,
     streakStartDate |-> Null]

\* variant: a broken streak resets the tier to 0
brokenSummary_TierZero(last) ==
    [dailiesCount |-> 0, dayCount |-> 0, weekCount |-> 0, monthCount |-> 0,
     yearCount |-> 0, currentTier |-> 0, lastLogDate |-> Some(last),
     streakStartDate |-> Null]

brokenSummary(last) ==
    [dailiesCount |-> 0, dayCount |-> 0, weekCount |-> 0, monthCount |-> 0,
     yearCount |-> 0, currentTier |-> 1, lastLogDate |-> Some(last),
     streakStartDate |-> Null]

Min(a, b) == IF a < b THEN a ELSE b
Max(a, b) == IF a > b THEN a ELSE b

\* variant: the comparator is reversed, a - b, and the list comes out oldest
\* first
RECURSIVE InsertDesc_OldestFirst(_, _)
InsertDesc_OldestFirst(s, x) ==
    IF s = <<>> THEN <<x>>
    ELSE IF Head(s).timestamp <= x.timestamp
         THEN <<Head(s)>> \o InsertDesc_OldestFirst(Tail(s), x)
         ELSE <<x>> \o s

\* Array.prototype.sort is stable: x goes after every element that does not
\* compare greater than it.  InsertDesc keeps s in descending timestamp order.
RECURSIVE InsertDesc(_, _)
InsertDesc(s, x) ==
    IF s = <<>> THEN <<x>>
    ELSE IF Head(s).timestamp >= x.timestamp
         THEN <<Head(s)>> \o InsertDesc(Tail(s), x)
         ELSE <<x>> \o s

RECURSIVE SortFrom(_, _, _)
SortFrom(ls, i, acc) ==
    IF i > Len(ls) THEN acc
    ELSE SortFrom(ls, i + 1, InsertDesc(acc, ls[i]))

\* variant: the list is used in the order given
sortedLogsOf_Unsorted(ls) == ls

\* [...logs].sort((a, b) => time(b) - time(a))
sortedLogsOf(ls) == SortFrom(ls, 1, <<>>)

\* logsByDate: dateKey -> number of entries with that key
logsByDateOf(sorted, zone) ==
    [k \in {toDateString(sorted[i].timestamp, zone) : i \in 1..Len(sorted)} |->
        Cardinality({i \in 1..Len(sorted) :
                        toDateString(sorted[i].timestamp, zone) = k})]

\* Array.from(logsByDate.keys()): keys in order of first insertion
RECURSIVE MapKeys(_, _, _, _)
MapKeys(sorted, zone, i, acc) ==
    IF i > Len(sorted) THEN acc
    ELSE LET k == toDateString(sorted[i].timestamp, zone)
         IN  IF \E j \in 1..Len(acc) : acc[j] = k
             THEN MapKeys(sorted, zone, i + 1, acc)
             ELSE MapKeys(sorted, zone, i + 1, Append(acc, k))

RECURSIVE InsertKeyDesc(_, _, _)
InsertKeyDesc(s, k, zone) ==
    IF s = <<>> THEN <<k>>
    ELSE IF dateStringTime(Head(s), zone) >= dateStringTime(k, zone)
         THEN <<Head(s)>> \o InsertKeyDesc(Tail(s), k, zone)
         ELSE <<k>> \o s

RECURSIVE SortKeysFrom(_, _, _, _)
SortKeysFrom(ks, zone, i, acc) ==
    IF i > Len(ks) THEN acc
    ELSE SortKeysFrom(ks, zone, i + 1, InsertKeyDesc(acc, ks[i], zone))

\* keys.sort((a, b) => new Date(b).getTime() - new Date(a).getTime())
uniqueDatesOf(sorted, zone) ==
    SortKeysFrom(MapKeys(sorted, zone, 1, <<>>), zone, 1, <<>>)

\* variant: a grace window of 12 hours
gracePeriod_TwelveHours(t, zone) == toDateString(t - 12 * MsPerHour, zone)

\* new Date(now.getTime() - 36 * 60 * 60 * 1000).toDateString()
gracePeriod(t, zone) == toDateString(t - GraceMs, zone)

\* variant: the comparison with the grace date is strict
isWithinGracePeriod_Strict(latestDate, t, zone) ==
    \/ latestDate = toDateString(t, zone)
    \/ dateStringTime(latestDate, zone) > dateStringTime(gracePeriod(t, zone), zone)

\* latestDate === today || new Date(latestDate) >= new Date(gracePeriod)
isWithinGracePeriod(latestDate, t, zone) ==
    \/ latestDate = toDateString(t, zone)
    \/ dateStringTime(latestDate, zone) >= dateStringTime(gracePeriod(t, zone), zone)

\* variant: the per-day count is not capped
dailiesForDay_Uncapped(byDate, key) ==
    IF key \in DOMAIN byDate THEN byDate[key] ELSE 0

\* Math.min(logsByDate.get(key) || 0, 8)
dailiesForDay(byDate, key) ==
    Min(IF key \in DOMAIN byDate THEN byDate[key] ELSE 0, DailiesCap)

\* variant: the most recent day's count is taken even when today has entries
dailiesCountOf_LatestOnly(byDate, today, latestDate) ==
    Min(IF latestDate \in DOMAIN byDate THEN byDate[latestDate] ELSE 0, DailiesCap)

\* variant: today's count is taken even when today has no entry
dailiesCountOf_TodayOnly(byDate, today, latestDate) ==
    Min(IF today \in DOMAIN byDate THEN byDate[today] ELSE 0, DailiesCap)

\* Math.min(todayCount > 0 ? todayCount : latestDayCount, 8)
dailiesCountOf(byDate, today, latestDate) ==
    LET todayCount == IF today \in DOMAIN byDate THEN byDate[today] ELSE 0
        latestDayCount == IF latestDate \in DOMAIN byDate THEN byDate[latestDate] ELSE 0
    IN  Min(IF todayCount > 0 THEN todayCount ELSE latestDayCount, DailiesCap)

\* variant: days up to 2.5 days apart count as consecutive
isConsecutive_TwoAndAHalfDays(prevKey, curKey, zone) ==
    LET timeDiff == dateStringTime(prevKey, zone) - dateStringTime(curKey, zone)
    IN  2 * timeDiff <= 5 * MsPerDay

\* if (dailiesForDay < currentDayTier) currentDayTier = dailiesForDay
\* variant: the running tier is never lowered
lowerTier_Keep(d, currentDayTier) == currentDayTier

\* variant: the comparison is reversed and the running tier follows the
\* larger count
lowerTier_Raise(d, currentDayTier) == IF d > currentDayTier THEN d ELSE currentDayTier

lowerTier(d, currentDayTier) == IF d < currentDayTier THEN d ELSE currentDayTier

\* daysDiff <= 1.5 with daysDiff = timeDiff / (24 * 60 * 60 * 1000);
\* 1.5 days is a whole number of milliseconds, so the test is exact on integers
isConsecutive(prevKey, curKey, zone) ==
    LET timeDiff == dateStringTime(prevKey, zone) - dateStringTime(curKey, zone)
    IN  2 * timeDiff <= 3 * MsPerDay

\* variant: streakStartDate is set on the first day only and not moved back
RECURSIVE streakWalk_StartNotMoved(_, _, _, _, _)
streakWalk_StartNotMoved(uniqueDates, byDate, zone, i, acc) ==
    IF i > Len(uniqueDates) THEN acc
    ELSE LET d == dailiesForDay(byDate, uniqueDates[i])
         IN  IF i = 1
             THEN streakWalk_StartNotMoved(uniqueDates, byDate, zone, i + 1,
                      [dayCount |-> 1, currentDayTier |-> d,
                       streakStartDate |-> Some(uniqueDates[i])])
             ELSE IF isConsecutive(uniqueDates[i - 1], uniqueDates[i], zone)
                  THEN streakWalk_StartNotMoved(uniqueDates, byDate, zone, i + 1,
                           [dayCount |-> acc.dayCount + 1,
                            currentDayTier |-> lowerTier(d, acc.currentDayTier),
                            streakStartDate |-> acc.streakStartDate])
                  ELSE acc

\* the for loop over uniqueDates; acc carries dayCount, currentDayTier and
\* streakStartDate, and the walk returns at the break
RECURSIVE streakWalk(_, _, _, _, _)
streakWalk(uniqueDates, byDate, zone, i, acc) ==
    IF i > Len(uniqueDates) THEN acc
    ELSE LET d == dailiesForDay(byDate, uniqueDates[i])
         IN  IF i = 1
             THEN streakWalk(uniqueDates, byDate, zone, i + 1,
                      [dayCount |-> 1, currentDayTier |-> d,
                       streakStartDate |-> Some(uniqueDates[i])])
             ELSE IF isConsecutive(uniqueDates[i - 1], uniqueDates[i], zone)
                  THEN streakWalk(uniqueDates, byDate, zone, i + 1,
                           [dayCount |-> acc.dayCount + 1,
                            currentDayTier |-> lowerTier(d, acc.currentDayTier),
                            streakStartDate |-> Some(uniqueDates[i])])
                  ELSE acc

\* variant: Math.ceil, a started week counts
weekCountOf_Ceil(dayCount) == (dayCount + 6) \div 7

\* Math.floor(dayCount / 7)
weekCountOf(dayCount) == dayCount \div 7

\* variant: Math.round, half a month of weeks counts
monthCountOf_Round(weekCount) == (weekCount + 2) \div 4

\* Math.floor(weekCount / 4)
monthCountOf(weekCount) == weekCount \div 4

\* Math.floor(monthCount / 12)
yearCountOf(monthCount) == monthCount \div 12

calculateStreakFromLogs(ls, t, zone) ==
    IF Len(ls) = 0 THEN neutralSummary
    ELSE
    LET sortedLogs == sortedLogsOf(ls)
        byDate == logsByDateOf(sortedLogs, zone)
        uniqueDates == uniqueDatesOf(sortedLogs, zone)
    IN  IF Len(uniqueDates) = 0 THEN neutralSummary
        ELSE
        LET today == toDateString(t, zone)
            latestDate == uniqueDates[1]
        IN  IF ~isWithinGracePeriod(latestDate, t, zone)
            THEN brokenSummary(sortedLogs[1].timestamp)
            ELSE
            LET w == streakWalk(uniqueDates, byDate, zone, 1,
                         [dayCount |-> 0, currentDayTier |-> 1,
                          streakStartDate |-> Null])
                weekCount == weekCountOf(w.dayCount)
                monthCount == monthCountOf(weekCount)
                yearCount == yearCountOf(monthCount)
            IN  [dailiesCount |-> dailiesCountOf(byDate, today, latestDate),
                 dayCount |-> w.dayCount,
                 weekCount |-> weekCount,
                 monthCount |-> monthCount,
                 yearCount |-> yearCount,
                 currentTier |-> Max(w.currentDayTier, 1),
                 lastLogDate |-> Some(sortedLogs[1].timestamp),
                 streakStartDate |-> w.streakStartDate]

---------------------------------------------------------------------------
(* Engine specification: an entry list, an evaluation instant and a time   *)
(* zone are drawn from the bounded sets, then the engine is applied.       *)

Timestamps(ls) == {ls[i].timestamp : i \in 1..Len(ls)}

EngineInit ==
    /\ logs = <<>>
    /\ streakData = neutralSummary
    /\ now \in NowInstants
    /\ tz \in TzOffsets
    /\ pc = "build"
    /\ stored = Null
    /\ lastSubmit = Null
    /\ isAuthenticated = FALSE
    /\ pendingSignOuts = 0
    /\ sessionPending = FALSE
    /\ isSubmitting = FALSE
    /\ editingTimestamp = Null
    /\ editTimestampValue = Null
    /\ lastOp = "none"
    /\ walk = Null
    /\ calls = NoCalls
    /\ selectPending = 0
    /\ currentPage = 1
    /\ isSimplifiedMode = FALSE
    /\ simplifiedStored = Null
    /\ insertPending = Null
    /\ lastAccepted = Null

\* the list is in chronological order one way or the other: newest first, as
\* handleSubmit builds it, or oldest first
Monotone(ls) ==
    \/ \A i \in 1..(Len(ls) - 1) : ls[i].timestamp >= ls[i + 1].timestamp
    \/ \A i \in 1..(Len(ls) - 1) : ls[i].timestamp <= ls[i + 1].timestamp

\* one more entry of the input list, at any instant that keeps the list in
\* chronological order
AddEntry(t) ==
    /\ pc = "build"
    /\ \/ Len(logs) < MaxLen
       \/ Len(logs) < MaxBurst /\ Timestamps(logs) = {t}
    /\ logs' = Append(logs, [id |-> Len(logs) + 1, timestamp |-> t])
    /\ Monotone(logs')
    /\ UNCHANGED <<streakData, now, tz, walk, calls, pc>>
    /\ UNCHANGED pageVars

\* the call calculateStreakFromLogs(logs) at instant now
Compute ==
    /\ pc = "build"
    /\ streakData' = calculateStreakFromLogs(logs, now, tz)
    /\ pc' = "done"
    /\ UNCHANGED <<logs, now, tz, walk, calls>>
    /\ UNCHANGED pageVars

EngineNext ==
    \/ \E t \in Instants : AddEntry(t)
    \/ Compute

EngineSpec == EngineInit /\ [][EngineNext]_vars

---------------------------------------------------------------------------
(* History specification: the list a daily user leaves behind.  Every      *)
(* submit prepends one entry (handleSubmit), so the list is newest first;  *)
(* the newest entry is made at the evaluation instant, each further one    *)
(* lies a day before the oldest so far and, at most once in a history, two *)
(* days before it (a missed day).  Instants before the origin are          *)
(* negative.                                                               *)

HistoryNow == 14 * MsPerDay + 12 * MsPerHour

HistoryInit ==
    /\ logs = <<>>
    /\ streakData = neutralSummary
    /\ now = HistoryNow
    /\ tz \in TzOffsets
    /\ pc = "build"
    /\ stored = Null
    /\ lastSubmit = Null
    /\ isAuthenticated = FALSE
    /\ pendingSignOuts = 0
    /\ sessionPending = FALSE
    /\ isSubmitting = FALSE
    /\ editingTimestamp = Null
    /\ editTimestampValue = Null
    /\ lastOp = "none"
    /\ walk = Null
    /\ calls = NoCalls
    /\ selectPending = 0
    /\ currentPage = 1
    /\ isSimplifiedMode = FALSE
    /\ simplifiedStored = Null
    /\ insertPending = Null
    /\ lastAccepted = Null

MissedDay(ls) ==
    \E i \in 1..(Len(ls) - 1) : ls[i].timestamp - ls[i + 1].timestamp > MsPerDay

LogEarlierDay(skip) ==
    /\ pc = "build"
    /\ Len(logs) < MaxStreak
    /\ skip => (logs # <<>> /\ ~MissedDay(logs))
    /\ LET t == IF logs = <<>> THEN now
                ELSE logs[Len(logs)].timestamp
                         - (IF skip THEN 2 ELSE 1) * MsPerDay
       IN  logs' = Append(logs, [id |-> Len(logs) + 1, timestamp |-> t])
    /\ UNCHANGED <<streakData, now, tz, walk, calls, pc>>
    /\ UNCHANGED pageVars

HistoryNext ==
    \/ \E skip \in BOOLEAN : LogEarlierDay(skip)
    \/ Compute

HistorySpec == HistoryInit /\ [][HistoryNext]_vars

---------------------------------------------------------------------------
(* Walk specification: one engine call taken apart into its early returns, *)
(* the iterations of its for loop and its final return.  While the loop    *)
(* runs, walk holds the call's locals: uniqueDates, logsByDate,            *)
(* dailiesCount and the newest timestamp as computed before the loop, i    *)
(* (the loop index, counted from 1), dayCount, currentDayTier,             *)
(* streakStartDate, broke (the break was taken) and iterations (loop       *)
(* bodies entered so far).  The input is a newest-first list on the page's *)
(* clock grid.                                                             *)

WalkInit ==
    /\ logs = <<>>
    /\ streakData = neutralSummary
    /\ now \in WalkInstants
    /\ tz \in TzOffsets
    /\ pc = "build"
    /\ stored = Null
    /\ lastSubmit = Null
    /\ isAuthenticated = FALSE
    /\ pendingSignOuts = 0
    /\ sessionPending = FALSE
    /\ isSubmitting = FALSE
    /\ editingTimestamp = Null
    /\ editTimestampValue = Null
    /\ lastOp = "none"
    /\ walk = Null
    /\ calls = NoCalls
    /\ selectPending = 0
    /\ currentPage = 1
    /\ isSimplifiedMode = FALSE
    /\ simplifiedStored = Null
    /\ insertPending = Null
    /\ lastAccepted = Null

AddOlderEntry(t) ==
    /\ pc = "build"
    /\ Len(logs) < MaxLen
    /\ logs # <<>> => t <= logs[Len(logs)].timestamp
    /\ logs' = Append(logs, [id |-> Len(logs) + 1, timestamp |-> t])
    /\ UNCHANGED <<streakData, now, tz, walk, calls, pc>>
    /\ UNCHANGED pageVars

\* from the entry of the function to the head of the for loop
enterEngine ==
    /\ pc = "build"
    /\ IF Len(logs) = 0
       THEN streakData' = neutralSummary /\ pc' = "done" /\ walk' = Null
       ELSE
       LET sortedLogs == sortedLogsOf(logs)
           uniqueDates == uniqueDatesOf(sortedLogs, tz)
       IN  IF Len(uniqueDates) = 0
           THEN streakData' = neutralSummary /\ pc' = "done" /\ walk' = Null
           ELSE IF ~isWithinGracePeriod(uniqueDates[1], now, tz)
           THEN /\ streakData' = brokenSummary(sortedLogs[1].timestamp)
                /\ pc' = "done"
                /\ walk' = Null
           ELSE /\ walk' = Some([uniqueDates |-> uniqueDates,
                                 logsByDate |-> logsByDateOf(sortedLogs, tz),
                                 lastLogDate |-> sortedLogs[1].timestamp,
                                 dailiesCount |->
                                     dailiesCountOf(logsByDateOf(sortedLogs, tz),
                                                    toDateString(now, tz),
                                                    uniqueDates[1]),
                                 i |-> 1, dayCount |-> 0, currentDayTier |-> 1,
                                 streakStartDate |-> Null, broke |-> FALSE,
                                 iterations |-> 0])
                /\ pc' = "walk"
                /\ UNCHANGED streakData
    /\ UNCHANGED <<logs, now, tz, calls>>
    /\ UNCHANGED pageVars

\* variant: the loop runs while i <= uniqueDates.length; the extra pass
\* reads undefined, its day difference is NaN and it takes the break
walkStep_OffByOne ==
    /\ pc = "walk"
    /\ LET w == walk[1]
           byDate == walk[1].logsByDate
           uniqueDates == walk[1].uniqueDates
       IN  /\ ~w.broke
           /\ w.i <= Len(uniqueDates) + 1
           /\ walk' = Some(
                  IF w.i > Len(uniqueDates)
                  THEN [w EXCEPT !.broke = TRUE, !.iterations = @ + 1]
                  ELSE IF w.i = 1
                  THEN [w EXCEPT !.currentDayTier =
                                     dailiesForDay(byDate, uniqueDates[1]),
                                 !.dayCount = 1,
                                 !.streakStartDate = Some(uniqueDates[1]),
                                 !.i = 2, !.iterations = @ + 1]
                  ELSE IF isConsecutive(uniqueDates[w.i - 1], uniqueDates[w.i], tz)
                  THEN [w EXCEPT !.dayCount = @ + 1,
                                 !.streakStartDate = Some(uniqueDates[w.i]),
                                 !.currentDayTier =
                                     lowerTier(dailiesForDay(byDate, uniqueDates[w.i]), @),
                                 !.i = @ + 1, !.iterations = @ + 1]
                  ELSE [w EXCEPT !.broke = TRUE, !.iterations = @ + 1])
    /\ UNCHANGED <<logs, streakData, now, tz, pc, calls>>
    /\ UNCHANGED pageVars

\* one pass through the body of for (let i = 0; i < uniqueDates.length; i++)
walkStep ==
    /\ pc = "walk"
    /\ LET w == walk[1]
           byDate == walk[1].logsByDate
           uniqueDates == walk[1].uniqueDates
       IN  /\ ~w.broke
           /\ w.i <= Len(uniqueDates)
           /\ walk' = Some(
                  IF w.i = 1
                  THEN [w EXCEPT !.currentDayTier =
                                     dailiesForDay(byDate, uniqueDates[1]),
                                 !.dayCount = 1,
                                 !.streakStartDate = Some(uniqueDates[1]),
                                 !.i = 2, !.iterations = @ + 1]
                  ELSE IF isConsecutive(uniqueDates[w.i - 1], uniqueDates[w.i], tz)
                  THEN [w EXCEPT !.dayCount = @ + 1,
                                 !.streakStartDate = Some(uniqueDates[w.i]),
                                 !.currentDayTier =
                                     lowerTier(dailiesForDay(byDate, uniqueDates[w.i]), @),
                                 !.i = @ + 1, !.iterations = @ + 1]
                  ELSE [w EXCEPT !.broke = TRUE, !.iterations = @ + 1])
    /\ UNCHANGED <<logs, streakData, now, tz, pc, calls>>
    /\ UNCHANGED pageVars

\* after the loop: the tier floor, the derived counts and the return
walkReturn ==
    /\ pc = "walk"
    /\ LET w == walk[1]
           weekCount == weekCountOf(w.dayCount)
           monthCount == monthCountOf(weekCount)
       IN  /\ w.broke \/ w.i > Len(w.uniqueDates)
           /\ streakData' =
                  [dailiesCount |-> w.dailiesCount,
                   dayCount |-> w.dayCount,
                   weekCount |-> weekCount,
                   monthCount |-> monthCount,
                   yearCount |-> yearCountOf(monthCount),
                   currentTier |-> Max(w.currentDayTier, 1),
                   lastLogDate |-> Some(w.lastLogDate),
                   streakStartDate |-> w.streakStartDate]
    /\ pc' = "done"
    /\ UNCHANGED <<logs, now, tz, walk, calls>>
    /\ UNCHANGED pageVars

WalkNext ==
    \/ \E t \in WalkInstants : AddOlderEntry(t)
    \/ enterEngine
    \/ walkStep
    \/ walkReturn

\* the call is synchronous: once entered, its statements run one after the
\* other with nothing in between
WalkSpec ==
    WalkInit /\ [][WalkNext]_vars /\ WF_vars(walkStep) /\ WF_vars(walkReturn)

---------------------------------------------------------------------------
(* Callers specification: several callers of the engine at once, as when   *)
(* renders repeat.  Each call has a record of its own in calls: input, the *)
(* list it was passed (the page's logs of the render that made the call),  *)
(* locals, the variables of the function body while its loop runs, and     *)
(* result, the value it returned.  The statements of the calls in flight   *)
(* are taken in any order, and the page's list grows between them, in any  *)
(* order of time, so that two calls in flight hold different snapshots.    *)

CallersInit ==
    /\ logs = <<>>
    /\ streakData = neutralSummary
    /\ now \in WalkInstants
    /\ tz \in TzOffsets
    /\ pc = "build"
    /\ stored = Null
    /\ lastSubmit = Null
    /\ isAuthenticated = FALSE
    /\ pendingSignOuts = 0
    /\ sessionPending = FALSE
    /\ isSubmitting = FALSE
    /\ editingTimestamp = Null
    /\ editTimestampValue = Null
    /\ lastOp = "none"
    /\ walk = Null
    /\ calls = NoCalls
    /\ selectPending = 0
    /\ currentPage = 1
    /\ isSimplifiedMode = FALSE
    /\ simplifiedStored = Null
    /\ insertPending = Null
    /\ lastAccepted = Null

\* the page's list is replaced by one with a further entry, at any instant
AddCallEntry(t) ==
    /\ pc = "build"
    /\ Len(logs) < MaxCallLen
    /\ logs' = Append(logs, [id |-> Len(logs) + 1, timestamp |-> t])
    /\ UNCHANGED <<streakData, now, tz, walk, calls, pc>>
    /\ UNCHANGED pageVars

\* a call from its entry to the head of its for loop, or to an early
\* return: the record of the call passed list ls at instant t
entryOf(ls, t, zone) ==
    IF Len(ls) = 0
    THEN [phase |-> "returned", input |-> ls, locals |-> Null,
          result |-> Some(neutralSummary)]
    ELSE
    LET sortedLogs == sortedLogsOf(ls)
        uniqueDates == uniqueDatesOf(sortedLogs, zone)
    IN  IF Len(uniqueDates) = 0
        THEN [phase |-> "returned", input |-> ls, locals |-> Null,
              result |-> Some(neutralSummary)]
        ELSE IF ~isWithinGracePeriod(uniqueDates[1], t, zone)
        THEN [phase |-> "returned", input |-> ls, locals |-> Null,
              result |-> Some(brokenSummary(sortedLogs[1].timestamp))]
        ELSE [phase |-> "walk", input |-> ls,
              locals |-> Some([uniqueDates |-> uniqueDates,
                               logsByDate |-> logsByDateOf(sortedLogs, zone),
                               lastLogDate |-> sortedLogs[1].timestamp,
                               dailiesCount |->
                                   dailiesCountOf(logsByDateOf(sortedLogs, zone),
                                                  toDateString(t, zone),
                                                  uniqueDates[1]),
                               i |-> 1, dayCount |-> 0, currentDayTier |-> 1,
                               streakStartDate |-> Null, broke |-> FALSE,
                               iterations |-> 0]),
              result |-> Null]

\* the locals w after one pass through the body of the for loop
loopBodyOf(w, zone) ==
    IF w.i = 1
    THEN [w EXCEPT !.currentDayTier = dailiesForDay(w.logsByDate, w.uniqueDates[1]),
                   !.dayCount = 1,
                   !.streakStartDate = Some(w.uniqueDates[1]),
                   !.i = 2, !.iterations = @ + 1]
    ELSE IF isConsecutive(w.uniqueDates[w.i - 1], w.uniqueDates[w.i], zone)
    THEN [w EXCEPT !.dayCount = @ + 1,
                   !.streakStartDate = Some(w.uniqueDates[w.i]),
                   !.currentDayTier =
                       lowerTier(dailiesForDay(w.logsByDate, w.uniqueDates[w.i]), @),
                   !.i = @ + 1, !.iterations = @ + 1]
    ELSE [w EXCEPT !.broke = TRUE, !.iterations = @ + 1]

\* the summary returned from the locals w once the loop is over
returnOf(w) ==
    LET weekCount == weekCountOf(w.dayCount)
        monthCount == monthCountOf(weekCount)
    IN  [dailiesCount |-> w.dailiesCount,
         dayCount |-> w.dayCount,
         weekCount |-> weekCount,
         monthCount |-> monthCount,
         yearCount |-> yearCountOf(monthCount),
         currentTier |-> Max(w.currentDayTier, 1),
         lastLogDate |-> Some(w.lastLogDate),
         streakStartDate |-> w.streakStartDate]

\* variant: logs.sort(...) without the copy, the list passed by the caller,
\* which is the page's list, is sorted in place
callEnter_SortsInPlace(c) ==
    /\ pc = "build"
    /\ calls[c].phase # "walk"
    /\ calls' = [calls EXCEPT ![c] = entryOf(sortedLogsOf(logs), now, tz)]
    /\ logs' = sortedLogsOf(logs)
    /\ UNCHANGED <<streakData, now, tz, walk, pc>>
    /\ UNCHANGED pageVars

\* caller c calls calculateStreakFromLogs(logs) with the page's list
callEnter(c) ==
    /\ pc = "build"
    /\ calls[c].phase # "walk"
    /\ calls' = [calls EXCEPT ![c] = entryOf(logs, now, tz)]
    /\ UNCHANGED <<logs, streakData, now, tz, walk, pc>>
    /\ UNCHANGED pageVars

\* the call of caller c makes one pass through its loop
callStep(c) ==
    /\ pc = "build"
    /\ calls[c].phase = "walk"
    /\ LET w == calls[c].locals[1]
       IN  /\ ~w.broke
           /\ w.i <= Len(w.uniqueDates)
           /\ calls' = [calls EXCEPT ![c].locals = Some(loopBodyOf(w, tz))]
    /\ UNCHANGED <<logs, streakData, now, tz, walk, pc>>
    /\ UNCHANGED pageVars

\* the call of caller c leaves its loop and returns
callReturn(c) ==
    /\ pc = "build"
    /\ calls[c].phase = "walk"
    /\ LET w == calls[c].locals[1]
       IN  /\ w.broke \/ w.i > Len(w.uniqueDates)
           /\ calls' = [calls EXCEPT ![c] =
                            [phase |-> "returned", input |-> calls[c].input,
                             locals |-> Null, result |-> Some(returnOf(w))]]
    /\ UNCHANGED <<logs, streakData, now, tz, walk, pc>>
    /\ UNCHANGED pageVars

CallersNext ==
    \/ \E t \in WalkInstants : AddCallEntry(t)
    \/ \E c \in Callers : callEnter(c)
    \/ \E c \in Callers : callStep(c)
    \/ \E c \in Callers : callReturn(c)

CallersSpec == CallersInit /\ [][CallersNext]_vars

---------------------------------------------------------------------------
(* The page: TEATracker's state and handlers.  A LogEntry is [id,          *)
(* timestamp]; energy, attention, note and image are carried along by the  *)
(* handlers unread and are left out, as are the form and the celebration.  *)
(* JSON.stringify/JSON.parse of the list and toString/parseInt of a        *)
(* millisecond count give back the same values, so localStorage holds the  *)
(* list and the number themselves.                                         *)

\* histories an earlier visit can have left in localStorage at instant t:
\* newest first, each entry made by handleSubmit at a distinct past instant
RECURSIVE HistoriesBefore(_, _)
HistoriesBefore(t, n) ==
    IF n = 0 THEN {<<>>}
    ELSE {<<>>} \cup
         UNION {{<<[id |-> u, timestamp |-> u]>> \o h :
                    h \in HistoriesBefore(u, n - 1)} :
                u \in {i \in PageInstants : i < t}}

\* the datetime-local value of an instant: local time cut to the minute,
\* new Date(t - getTimezoneOffset() * 60000).toISOString().slice(0, 16)
toDateTimeLocal(t, zone) == ((t + zone) \div MsPerMinute) * MsPerMinute

\* new Date(editTimestampValue).getTime(): a datetime-local string without
\* zone is read as local time
parseDateTimeLocal(v, zone) == v - zone

\* instants the user types: the first and the last of the page's clock, so
\* that a value is in the past, at the current instant or in the future
EditInstants == {12 * MsPerHour, MaxPageDay * MsPerDay + 12 * MsPerHour}

\* values the user can type into the datetime-local input
EditValues(zone) == {toDateTimeLocal(t, zone) : t \in EditInstants}

LogIds == {logs[i].id : i \in 1..Len(logs)}

\* setTimeout(..., 500): how long the submit button stays disabled
SubmitDelayMs == 500

\* isSubmitting at the instant t: the timer set by the last accepted submit
\* has called setIsSubmitting(false) once SubmitDelayMs have passed; every
\* step of the clocks is longer than that
submittingAt(t) ==
    /\ isSubmitting
    /\ ~(lastAccepted # Null /\ t - lastAccepted[1] >= SubmitDelayMs)

\* calls of handleLogout followed while they wait on signOut
MaxPending == 2

\* edited rows followed in a history that fills a page
MaxEdited == 1

\* const ITEMS_PER_PAGE = 10
ItemsPerPage == 10

\* the clock of a visit that opens on a long stored history
SessionStart == MsPerDay + 12 * MsPerHour + 30 * MsPerMinute

\* how long a history is followed: MaxLogs entries, and MaxPaged when it
\* fills a page of the history
LogsCap == IF Len(logs) >= ItemsPerPage THEN MaxPaged ELSE MaxLogs

\* the rows of logs whose timestamp was edited, other than the row logId
editedRows(logId) ==
    {i \in 1..Len(logs) : logs[i].timestamp # logs[i].id /\ logs[i].id # logId}

\* how many edited rows are followed: every row of a short history,
\* MaxEdited rows of one that fills a page, after which no edit is begun
EditsCap == IF Len(logs) >= ItemsPerPage THEN MaxEdited ELSE Len(logs)

Init ==
    /\ logs = <<>>
    /\ streakData = neutralSummary
    /\ now \in {t \in PageInstants : t <= MsPerDay + 12 * MsPerHour}
    /\ tz \in TzOffsets
    /\ pc = "mount"
    /\ stored \in {Null} \cup {Some(h) : h \in HistoriesBefore(now, MaxStored)}
    /\ lastSubmit = IF stored = Null \/ stored = Some(<<>>) THEN Null
                    ELSE Some(stored[1][1].id)
    /\ isAuthenticated = FALSE
    /\ pendingSignOuts = 0
    /\ sessionPending = FALSE
    /\ isSubmitting = FALSE
    /\ editingTimestamp = Null
    /\ editTimestampValue = Null
    /\ lastOp = "none"
    /\ walk = Null
    /\ calls = NoCalls
    /\ selectPending = 0
    /\ currentPage = 1
    /\ isSimplifiedMode = FALSE
    /\ simplifiedStored = Null
    /\ insertPending = Null
    /\ lastAccepted = Null

\* useEffect on mount: the auth listener is registered, initializeAuth runs
\* up to its await of getSession(), then 'tea-logs' is loaded, the streak
\* computed from it and the simplified-mode preference read
initialLoad ==
    /\ pc = "mount"
    /\ pc' = "page"
    /\ sessionPending' = TRUE
    /\ IF stored # Null
       THEN /\ logs' = stored[1]
            /\ streakData' = calculateStreakFromLogs(stored[1], now, tz)
       ELSE UNCHANGED <<logs, streakData>>
    /\ isSimplifiedMode' = IF simplifiedStored = Some(TRUE) THEN TRUE
                           ELSE isSimplifiedMode
    /\ lastOp' = "initialLoad"
    /\ UNCHANGED <<now, tz, walk, calls, stored, lastSubmit, isAuthenticated,
                   pendingSignOuts, isSubmitting, editingTimestamp,
                   editTimestampValue, currentPage, simplifiedStored,
                   insertPending, selectPending, lastAccepted>>

\* initializeAuth after its await: getSession() answered with a session or
\* with none
getSessionAnswered(hasSession) ==
    /\ pc = "page"
    /\ sessionPending
    /\ sessionPending' = FALSE
    /\ isAuthenticated' = IF hasSession THEN TRUE ELSE isAuthenticated
    /\ lastOp' = "getSession"
    /\ UNCHANGED <<logs, streakData, now, tz, walk, calls, pc, stored, lastSubmit,
                   pendingSignOuts, isSubmitting, editingTimestamp,
                   editTimestampValue,
                   currentPage, isSimplifiedMode, simplifiedStored,
                   insertPending, selectPending, lastAccepted>>

\* the callback registered with supabase.auth.onAuthStateChange, called
\* with a session (signed in) or without one (signed out)
onAuthStateChange(hasSession) ==
    /\ pc = "page"
    /\ isAuthenticated' = hasSession
    /\ lastOp' = "onAuthStateChange"
    /\ UNCHANGED <<logs, streakData, now, tz, walk, calls, pc, stored, lastSubmit,
                   pendingSignOuts, sessionPending, isSubmitting, editingTimestamp,
                   editTimestampValue, currentPage, isSimplifiedMode,
                   simplifiedStored, insertPending, selectPending, lastAccepted>>

\* variant: the streak is recomputed from the list before the new entry
handleSubmit_PreviousList ==
    /\ pc = "page"
    /\ ~isSubmitting
    /\ IF lastSubmit # Null /\ now - lastSubmit[1] < RateLimitMs
       THEN /\ lastOp' = "handleSubmit rejected"
            /\ UNCHANGED <<logs, streakData, stored, lastSubmit, currentPage,
                           isSubmitting,
                           lastAccepted>>
       ELSE LET newLog == [id |-> now, timestamp |-> now]
                updatedLogs == <<newLog>> \o logs
            IN  /\ Len(logs) < LogsCap
                /\ lastSubmit' = Some(now)
                /\ isSubmitting' = TRUE
                /\ logs' = updatedLogs
                /\ stored' = Some(updatedLogs)
                /\ streakData' = calculateStreakFromLogs(logs, now, tz)
                /\ currentPage' = 1
                /\ lastAccepted' = Some(now)
                /\ lastOp' = "handleSubmit"
    /\ UNCHANGED <<now, tz, walk, calls, pc, isAuthenticated, pendingSignOuts,
                   sessionPending,
                   editingTimestamp, editTimestampValue, isSimplifiedMode,
                   simplifiedStored, insertPending, selectPending>>

\* variant: setStreakData is left out and the summary stays as it was
handleSubmit_SummaryNotSet ==
    /\ pc = "page"
    /\ ~isSubmitting
    /\ IF lastSubmit # Null /\ now - lastSubmit[1] < RateLimitMs
       THEN /\ lastOp' = "handleSubmit rejected"
            /\ UNCHANGED <<logs, streakData, stored, lastSubmit, currentPage,
                           isSubmitting,
                           lastAccepted>>
       ELSE LET newLog == [id |-> now, timestamp |-> now]
                updatedLogs == <<newLog>> \o logs
            IN  /\ Len(logs) < LogsCap
                /\ lastSubmit' = Some(now)
                /\ isSubmitting' = TRUE
                /\ logs' = updatedLogs
                /\ stored' = Some(updatedLogs)
                /\ UNCHANGED streakData
                /\ currentPage' = 1
                /\ lastAccepted' = Some(now)
                /\ lastOp' = "handleSubmit"
    /\ UNCHANGED <<now, tz, walk, calls, pc, isAuthenticated, pendingSignOuts,
                   sessionPending,
                   editingTimestamp, editTimestampValue, isSimplifiedMode,
                   simplifiedStored, insertPending, selectPending>>

\* the submit button, disabled while isSubmitting: the rate limit against
\* 'last-tea-submit', then the new entry is put first, stored, and the
\* streak recomputed; the button stays disabled until the timer runs
handleSubmit ==
    /\ pc = "page"
    /\ ~isSubmitting
    /\ IF lastSubmit # Null /\ now - lastSubmit[1] < RateLimitMs
       THEN /\ lastOp' = "handleSubmit rejected"
            /\ UNCHANGED <<logs, streakData, stored, lastSubmit, currentPage,
                           isSubmitting,
                           lastAccepted>>
       ELSE LET newLog == [id |-> now, timestamp |-> now]
                updatedLogs == <<newLog>> \o logs
            IN  /\ Len(logs) < LogsCap
                /\ lastSubmit' = Some(now)
                /\ isSubmitting' = TRUE
                /\ logs' = updatedLogs
                /\ stored' = Some(updatedLogs)
                /\ streakData' = calculateStreakFromLogs(updatedLogs, now, tz)
                /\ currentPage' = 1
                /\ lastAccepted' = Some(now)
                /\ lastOp' = "handleSubmit"
    /\ UNCHANGED <<now, tz, walk, calls, pc, isAuthenticated, pendingSignOuts,
                   sessionPending,
                   editingTimestamp, editTimestampValue, isSimplifiedMode,
                   simplifiedStored, insertPending, selectPending>>

\* handleLogout up to its await of supabase.auth.signOut(); the button is
\* in the menu of a signed-in user and stays there while a call is waiting
handleLogout ==
    /\ pc = "page"
    /\ isAuthenticated
    /\ pendingSignOuts < MaxPending
    /\ pendingSignOuts' = pendingSignOuts + 1
    /\ lastOp' = "handleLogout"
    /\ UNCHANGED <<logs, streakData, now, tz, walk, calls, pc, stored, lastSubmit,
                   isAuthenticated, sessionPending, isSubmitting, editingTimestamp,
                   editTimestampValue, currentPage, isSimplifiedMode,
                   simplifiedStored, insertPending, selectPending, lastAccepted>>

\* variant: setCurrentPage(1) is missing from the logout
signOutResolved_KeepsPage ==
    /\ pc = "page"
    /\ pendingSignOuts > 0
    /\ pendingSignOuts' = pendingSignOuts - 1
    /\ stored' = Null
    /\ lastSubmit' = Null
    /\ logs' = <<>>
    /\ streakData' = neutralSummary
    /\ isSimplifiedMode' = FALSE
    /\ simplifiedStored' = Null
    /\ lastOp' = "handleLogout done"
    /\ UNCHANGED <<now, tz, walk, calls, pc, isAuthenticated, sessionPending, isSubmitting,
                   editingTimestamp, editTimestampValue, currentPage,
                   insertPending, selectPending, lastAccepted>>

\* signOut resolved, with or without an error in its result, which is not
\* read: the rest of the try block of one waiting call
signOutResolved ==
    /\ pc = "page"
    /\ pendingSignOuts > 0
    /\ pendingSignOuts' = pendingSignOuts - 1
    /\ stored' = Null
    /\ lastSubmit' = Null
    /\ logs' = <<>>
    /\ streakData' = neutralSummary
    /\ isSimplifiedMode' = FALSE
    /\ simplifiedStored' = Null
    /\ currentPage' = 1
    /\ lastOp' = "handleLogout done"
    /\ UNCHANGED <<now, tz, walk, calls, pc, isAuthenticated, sessionPending, isSubmitting,
                   editingTimestamp, editTimestampValue,
                   insertPending, selectPending, lastAccepted>>

\* variant: the clearing is in a finally block and runs after a failed
\* signOut as well
signOutRejected_ClearsAnyway ==
    /\ pc = "page"
    /\ pendingSignOuts > 0
    /\ pendingSignOuts' = pendingSignOuts - 1
    /\ stored' = Null
    /\ lastSubmit' = Null
    /\ logs' = <<>>
    /\ streakData' = neutralSummary
    /\ isSimplifiedMode' = FALSE
    /\ simplifiedStored' = Null
    /\ currentPage' = 1
    /\ lastOp' = "handleLogout failed"
    /\ UNCHANGED <<now, tz, walk, calls, pc, isAuthenticated, sessionPending, isSubmitting,
                   editingTimestamp, editTimestampValue,
                   insertPending, selectPending, lastAccepted>>

\* signOut threw: the catch block of one waiting call only logs the error
signOutRejected ==
    /\ pc = "page"
    /\ pendingSignOuts > 0
    /\ pendingSignOuts' = pendingSignOuts - 1
    /\ lastOp' = "handleLogout failed"
    /\ UNCHANGED <<logs, streakData, now, tz, walk, calls, pc, stored, lastSubmit,
                   isAuthenticated, sessionPending, isSubmitting, editingTimestamp,
                   editTimestampValue, currentPage, isSimplifiedMode,
                   simplifiedStored, insertPending, selectPending, lastAccepted>>

\* Math.ceil(logs.length / ITEMS_PER_PAGE)
totalPages == (Len(logs) + ItemsPerPage - 1) \div ItemsPerPage

\* (currentPage - 1) * ITEMS_PER_PAGE, the rows before the page shown
startIndex == (currentPage - 1) * ItemsPerPage

\* currentLogs, as positions in logs: the page shown to a signed-in user,
\* the first ITEMS_PER_PAGE rows to anyone else (slice stops at the end)
currentLogs ==
    IF isAuthenticated
    THEN {i \in 1..Len(logs) : startIndex < i /\ i <= startIndex + ItemsPerPage}
    ELSE {i \in 1..Len(logs) : i <= ItemsPerPage}

\* the ids of the rows rendered
shownIds == {logs[i].id : i \in currentLogs}

\* isAuthenticated && logs.length > ITEMS_PER_PAGE
showPagination == isAuthenticated /\ Len(logs) > ItemsPerPage

\* the Next button, rendered with the pagination and disabled on the last
\* page
goToNextPage ==
    /\ pc = "page"
    /\ showPagination
    /\ currentPage # totalPages
    /\ currentPage' = IF currentPage < totalPages THEN currentPage + 1
                      ELSE currentPage
    /\ lastOp' = "goToNextPage"
    /\ UNCHANGED <<logs, streakData, now, tz, walk, calls, pc, stored, lastSubmit,
                   isAuthenticated, pendingSignOuts, sessionPending, isSubmitting,
                   editingTimestamp, editTimestampValue, isSimplifiedMode,
                   simplifiedStored, insertPending, selectPending, lastAccepted>>

\* the Previous button, rendered with the pagination and disabled on page 1
goToPrevPage ==
    /\ pc = "page"
    /\ showPagination
    /\ currentPage # 1
    /\ currentPage' = IF currentPage > 1 THEN currentPage - 1 ELSE currentPage
    /\ lastOp' = "goToPrevPage"
    /\ UNCHANGED <<logs, streakData, now, tz, walk, calls, pc, stored, lastSubmit,
                   isAuthenticated, pendingSignOuts, sessionPending, isSubmitting,
                   editingTimestamp, editTimestampValue, isSimplifiedMode,
                   simplifiedStored, insertPending, selectPending, lastAccepted>>

\* the simplified-mode switch: the mode is flipped and saved
toggleSimplifiedMode ==
    /\ pc = "page"
    /\ isSimplifiedMode' = ~isSimplifiedMode
    /\ simplifiedStored' = Some(~isSimplifiedMode)
    /\ lastOp' = "toggleSimplifiedMode"
    /\ UNCHANGED <<logs, streakData, now, tz, walk, calls, pc, stored, lastSubmit,
                   isAuthenticated, pendingSignOuts, sessionPending, isSubmitting,
                   editingTimestamp, editTimestampValue, currentPage,
                   insertPending, selectPending, lastAccepted>>

\* the edit button of a row that is not being edited
startEditingTimestamp(i) ==
    /\ pc = "page"
    /\ i \in currentLogs
    /\ Cardinality(editedRows(logs[i].id)) < EditsCap
    /\ editingTimestamp # Some(logs[i].id)
    /\ editingTimestamp' = Some(logs[i].id)
    /\ editTimestampValue' = Some(toDateTimeLocal(logs[i].timestamp, tz))
    /\ lastOp' = "startEditingTimestamp"
    /\ UNCHANGED <<logs, streakData, now, tz, walk, calls, pc, stored, lastSubmit,
                   isAuthenticated, pendingSignOuts, sessionPending, isSubmitting,
                   currentPage, isSimplifiedMode, simplifiedStored,
                   insertPending, selectPending, lastAccepted>>

\* onChange of the datetime-local input of the row being edited; the input
\* can also be cleared
setEditTimestampValue(v) ==
    /\ pc = "page"
    /\ editingTimestamp # Null
    /\ editingTimestamp[1] \in shownIds
    /\ editTimestampValue' = v
    /\ editTimestampValue' # editTimestampValue
    /\ lastOp' = "setEditTimestampValue"
    /\ UNCHANGED <<logs, streakData, now, tz, walk, calls, pc, stored, lastSubmit,
                   isAuthenticated, pendingSignOuts, sessionPending, isSubmitting, editingTimestamp,
                   currentPage, isSimplifiedMode, simplifiedStored,
                   insertPending, selectPending, lastAccepted>>

\* logs.map(log => log.id === logId ? {...log, timestamp} : log)
withTimestamp(ls, logId, t) ==
    [i \in 1..Len(ls) |->
        IF ls[i].id = logId THEN [ls[i] EXCEPT !.timestamp = t] ELSE ls[i]]

\* variant: a future value is refused with the edit closed, as by cancel
saveTimestampEdit_FutureClosesEdit(logId) ==
    /\ pc = "page"
    /\ editingTimestamp = Some(logId)
    /\ logId \in shownIds
    /\ IF editTimestampValue = Null
       THEN /\ lastOp' = "saveTimestampEdit empty"
            /\ UNCHANGED <<logs, streakData, stored, editingTimestamp,
                           editTimestampValue>>
       ELSE LET newTimestamp == parseDateTimeLocal(editTimestampValue[1], tz)
            IN  IF newTimestamp > now
                THEN /\ lastOp' = "saveTimestampEdit rejected"
                     /\ editingTimestamp' = Null
                     /\ editTimestampValue' = Null
                     /\ UNCHANGED <<logs, streakData, stored>>
                ELSE LET updatedLogs == withTimestamp(logs, logId, newTimestamp)
                     IN  /\ Cardinality(editedRows(logId)) < EditsCap
                         /\ logs' = updatedLogs
                         /\ stored' = Some(updatedLogs)
                         /\ streakData' =
                                calculateStreakFromLogs(updatedLogs, now, tz)
                         /\ editingTimestamp' = Null
                         /\ editTimestampValue' = Null
                         /\ lastOp' = "saveTimestampEdit"
    /\ UNCHANGED <<now, tz, walk, calls, pc, lastSubmit, isAuthenticated,
                   pendingSignOuts, sessionPending, isSubmitting,
                   currentPage, isSimplifiedMode, simplifiedStored,
                   insertPending, selectPending, lastAccepted>>

\* variant: the comparison with the current instant is left out
saveTimestampEdit_NoFutureCheck(logId) ==
    /\ pc = "page"
    /\ editingTimestamp = Some(logId)
    /\ logId \in shownIds
    /\ IF editTimestampValue = Null
       THEN /\ lastOp' = "saveTimestampEdit empty"
            /\ UNCHANGED <<logs, streakData, stored, editingTimestamp,
                           editTimestampValue>>
       ELSE LET newTimestamp == parseDateTimeLocal(editTimestampValue[1], tz)
                updatedLogs == withTimestamp(logs, logId, newTimestamp)
            IN  /\ Cardinality(editedRows(logId)) < EditsCap
                /\ logs' = updatedLogs
                /\ stored' = Some(updatedLogs)
                /\ streakData' = calculateStreakFromLogs(updatedLogs, now, tz)
                /\ editingTimestamp' = Null
                /\ editTimestampValue' = Null
                /\ lastOp' = "saveTimestampEdit"
    /\ UNCHANGED <<now, tz, walk, calls, pc, lastSubmit, isAuthenticated,
                   pendingSignOuts, sessionPending, isSubmitting,
                   currentPage, isSimplifiedMode, simplifiedStored,
                   insertPending, selectPending, lastAccepted>>

\* variant: an accepted edit is not written to 'tea-logs'
saveTimestampEdit_MemoryOnly(logId) ==
    /\ pc = "page"
    /\ editingTimestamp = Some(logId)
    /\ logId \in shownIds
    /\ IF editTimestampValue = Null
       THEN /\ lastOp' = "saveTimestampEdit empty"
            /\ UNCHANGED <<logs, streakData, stored, editingTimestamp,
                           editTimestampValue>>
       ELSE LET newTimestamp == parseDateTimeLocal(editTimestampValue[1], tz)
            IN  IF newTimestamp > now
                THEN /\ lastOp' = "saveTimestampEdit rejected"
                     /\ UNCHANGED <<logs, streakData, stored, editingTimestamp,
                                    editTimestampValue>>
                ELSE LET updatedLogs == withTimestamp(logs, logId, newTimestamp)
                     IN  /\ Cardinality(editedRows(logId)) < EditsCap
                         /\ logs' = updatedLogs
                         /\ stored' = stored
                         /\ streakData' =
                                calculateStreakFromLogs(updatedLogs, now, tz)
                         /\ editingTimestamp' = Null
                         /\ editTimestampValue' = Null
                         /\ lastOp' = "saveTimestampEdit"
    /\ UNCHANGED <<now, tz, walk, calls, pc, lastSubmit, isAuthenticated,
                   pendingSignOuts, sessionPending, isSubmitting,
                   currentPage, isSimplifiedMode, simplifiedStored,
                   insertPending, selectPending, lastAccepted>>

\* the save button of the row being edited
saveTimestampEdit(logId) ==
    /\ pc = "page"
    /\ editingTimestamp = Some(logId)
    /\ logId \in shownIds
    /\ IF editTimestampValue = Null
       THEN /\ lastOp' = "saveTimestampEdit empty"
            /\ UNCHANGED <<logs, streakData, stored, editingTimestamp,
                           editTimestampValue>>
       ELSE LET newTimestamp == parseDateTimeLocal(editTimestampValue[1], tz)
            IN  IF newTimestamp > now
                THEN /\ lastOp' = "saveTimestampEdit rejected"
                     /\ UNCHANGED <<logs, streakData, stored, editingTimestamp,
                                    editTimestampValue>>
                ELSE LET updatedLogs == withTimestamp(logs, logId, newTimestamp)
                     IN  /\ Cardinality(editedRows(logId)) < EditsCap
                         /\ logs' = updatedLogs
                         /\ stored' = Some(updatedLogs)
                         /\ streakData' =
                                calculateStreakFromLogs(updatedLogs, now, tz)
                         /\ editingTimestamp' = Null
                         /\ editTimestampValue' = Null
                         /\ lastOp' = "saveTimestampEdit"
    /\ UNCHANGED <<now, tz, walk, calls, pc, lastSubmit, isAuthenticated,
                   pendingSignOuts, sessionPending, isSubmitting,
                   currentPage, isSimplifiedMode, simplifiedStored,
                   insertPending, selectPending, lastAccepted>>

\* the cancel button of the row being edited
cancelTimestampEdit ==
    /\ pc = "page"
    /\ editingTimestamp # Null
    /\ editingTimestamp[1] \in shownIds
    /\ editingTimestamp' = Null
    /\ editTimestampValue' = Null
    /\ lastOp' = "cancelTimestampEdit"
    /\ UNCHANGED <<logs, streakData, now, tz, walk, calls, pc, stored, lastSubmit,
                   isAuthenticated, pendingSignOuts, sessionPending, isSubmitting,
                   currentPage, isSimplifiedMode, simplifiedStored,
                   insertPending, selectPending, lastAccepted>>

\* time passes: the clock moves to a later instant
Tick ==
    /\ pc = "page"
    /\ \E t \in PageInstants : t > now /\ now' = t
    /\ isSubmitting' = submittingAt(now')
    /\ lastOp' = "tick"
    /\ UNCHANGED <<logs, streakData, tz, walk, calls, pc, stored, lastSubmit,
                   isAuthenticated, pendingSignOuts, sessionPending, editingTimestamp,
                   editTimestampValue,
                   currentPage, isSimplifiedMode, simplifiedStored,
                   insertPending, selectPending, lastAccepted>>

Next ==
    \/ initialLoad
    \/ \E hasSession \in BOOLEAN : getSessionAnswered(hasSession)
    \/ \E hasSession \in BOOLEAN : onAuthStateChange(hasSession)
    \/ toggleSimplifiedMode
    \/ handleSubmit
    \/ handleLogout
    \/ signOutResolved
    \/ signOutRejected
    \/ \E i \in 1..Len(logs) : startEditingTimestamp(i)
    \/ \E v \in {Null} \cup {Some(x) : x \in EditValues(tz)} : setEditTimestampValue(v)
    \/ \E logId \in LogIds : saveTimestampEdit(logId)
    \/ cancelTimestampEdit
    \/ Tick

Spec == Init /\ [][Next]_vars

---------------------------------------------------------------------------
(* Rate specification: the page during a few seconds of one visit.  The    *)
(* clock moves in steps of half the rate limit, so that submits fall both  *)
(* inside and outside the limit of an earlier one.                         *)

RateStart == MsPerDay + 12 * MsPerHour + MsPerMinute

RateStep == RateLimitMs \div 2

RateInstants == {RateStart + k * RateStep : k \in 0..MaxTicks}

RateInit ==
    /\ logs = <<>>
    /\ streakData = neutralSummary
    /\ now = RateStart
    /\ tz \in TzOffsets
    /\ pc = "mount"
    /\ stored = Null
    /\ lastSubmit = Null
    /\ isAuthenticated = FALSE
    /\ pendingSignOuts = 0
    /\ sessionPending = FALSE
    /\ isSubmitting = FALSE
    /\ editingTimestamp = Null
    /\ editTimestampValue = Null
    /\ lastOp = "none"
    /\ walk = Null
    /\ calls = NoCalls
    /\ selectPending = 0
    /\ currentPage = 1
    /\ isSimplifiedMode = FALSE
    /\ simplifiedStored = Null
    /\ insertPending = Null
    /\ lastAccepted = Null

\* a few seconds pass
ShortTick ==
    /\ pc = "page"
    /\ now + RateStep \in RateInstants
    /\ now' = now + RateStep
    /\ isSubmitting' = submittingAt(now')
    /\ lastOp' = "tick"
    /\ UNCHANGED <<logs, streakData, tz, walk, calls, pc, stored, lastSubmit,
                   isAuthenticated, pendingSignOuts, sessionPending, editingTimestamp,
                   editTimestampValue, currentPage, isSimplifiedMode,
                   simplifiedStored, insertPending, selectPending, lastAccepted>>

RateNext ==
    \/ initialLoad
    \/ \E hasSession \in BOOLEAN : getSessionAnswered(hasSession)
    \/ \E hasSession \in BOOLEAN : onAuthStateChange(hasSession)
    \/ toggleSimplifiedMode
    \/ handleSubmit
    \/ handleLogout
    \/ signOutResolved
    \/ signOutRejected
    \/ \E i \in 1..Len(logs) : startEditingTimestamp(i)
    \/ \E v \in {Null} \cup {Some(x) : x \in EditValues(tz)} : setEditTimestampValue(v)
    \/ \E logId \in LogIds : saveTimestampEdit(logId)
    \/ cancelTimestampEdit
    \/ ShortTick

RateSpec == RateInit /\ [][RateNext]_vars

---------------------------------------------------------------------------
(* Paging specification: a visit that opens on a long stored history, at   *)
(* the instant SessionStart.  The history was made one entry an hour,      *)
(* newest first, and is followed through the edit of MaxEdited of its     *)
(* rows.                                                                   *)

LongHistory(n) ==
    [i \in 1..n |-> [id |-> SessionStart - i * MsPerHour,
                     timestamp |-> SessionStart - i * MsPerHour]]

\* lengths of the stored history: a full page, and one short of the longest
PagedLengths == {ItemsPerPage, MaxPaged - 1}

PagingInit ==
    /\ logs = <<>>
    /\ streakData = neutralSummary
    /\ now = SessionStart
    /\ tz = -MsPerHour
    /\ pc = "mount"
    /\ stored \in {Some(LongHistory(n)) : n \in PagedLengths}
    /\ lastSubmit = Some(stored[1][1].id)
    /\ isAuthenticated = FALSE
    /\ pendingSignOuts = 0
    /\ sessionPending = FALSE
    /\ isSubmitting = FALSE
    /\ editingTimestamp = Null
    /\ editTimestampValue = Null
    /\ lastOp = "none"
    /\ walk = Null
    /\ calls = NoCalls
    /\ selectPending = 0
    /\ currentPage = 1
    /\ isSimplifiedMode = FALSE
    /\ simplifiedStored \in {Null, Some(TRUE), Some(FALSE)}
    /\ insertPending = Null
    /\ lastAccepted = Null

PagingNext ==
    \/ initialLoad
    \/ \E hasSession \in BOOLEAN : getSessionAnswered(hasSession)
    \/ \E hasSession \in BOOLEAN : onAuthStateChange(hasSession)
    \/ goToNextPage
    \/ goToPrevPage
    \/ toggleSimplifiedMode
    \/ handleSubmit
    \/ handleLogout
    \/ signOutResolved
    \/ signOutRejected
    \/ \E i \in 1..Len(logs) : startEditingTimestamp(i)
    \/ \E v \in {Null} \cup {Some(x) : x \in EditValues(tz)} : setEditTimestampValue(v)
    \/ \E logId \in LogIds : saveTimestampEdit(logId)
    \/ cancelTimestampEdit
    \/ Tick

PagingSpec == PagingInit /\ [][PagingNext]_vars

---------------------------------------------------------------------------
(* Supabase specification: the Supabase-backed variant of the page         *)
(* (src/unnamed/part_000).  It has no streak summary.  isAuthenticated is  *)
(* !!user; every user object the auth client hands over is a new one, so   *)
(* each setUser with a user re-runs the effect that loads the logs.  The   *)
(* awaited calls are followed while in flight: sessionPending is the       *)
(* getUser of the first effect, selectPending counts the runs of loadLogs  *)
(* waiting on their select, insertPending holds the entry of a signed-in   *)
(* handleSubmit and the logs of the render the call was made in, and       *)
(* pendingSignOuts counts the calls of handleLogout.  isSubmitting of this *)
(* variant is insertPending # Null.  lastAccepted is set when a submit     *)
(* creates its entry.  The rows a select returns are the server's affair:  *)
(* any short history, or one long enough for the pagination.               *)

\* runs of loadLogs followed while they wait on their select
MaxSelects == 2

SupabaseInit ==
    /\ logs = <<>>
    /\ streakData = neutralSummary
    /\ now \in {t \in PageInstants : t <= MsPerDay + 12 * MsPerHour}
    /\ tz \in TzOffsets
    /\ pc = "mount"
    /\ stored \in {Null} \cup {Some(h) : h \in HistoriesBefore(now, MaxStored)}
    /\ lastSubmit = IF stored = Null \/ stored = Some(<<>>) THEN Null
                    ELSE Some(stored[1][1].id)
    /\ isAuthenticated = FALSE
    /\ pendingSignOuts = 0
    /\ sessionPending = FALSE
    /\ isSubmitting = FALSE
    /\ editingTimestamp = Null
    /\ editTimestampValue = Null
    /\ lastOp = "none"
    /\ walk = Null
    /\ calls = NoCalls
    /\ selectPending = 0
    /\ currentPage = 1
    /\ isSimplifiedMode = FALSE
    /\ simplifiedStored = Null
    /\ insertPending = Null
    /\ lastAccepted = Null

\* the rows a select can answer with at instant t: a short history, or one
\* that fills more than a page of the history
ServerRows(t) ==
    HistoriesBefore(t, MaxStored)
        \cup {LongHistory(n) : n \in {m \in {MaxPaged - 1, MaxPaged} :
                                          SessionStart - MsPerHour < t}}

\* one run of loadLogs, in a render whose user is set (signedIn) or null:
\* signed in it goes as far as its await of the select, signed out it reads
\* localStorage 'tea-logs' and sets the logs if the key is there
loadLogs(signedIn) ==
    IF signedIn
    THEN /\ selectPending' = selectPending + 1
         /\ UNCHANGED logs
    ELSE /\ logs' = IF stored # Null THEN stored[1] ELSE logs
         /\ UNCHANGED selectPending

\* setUser(user) and the render after it: the effect on [isAuthenticated,
\* user] runs loadLogs again unless the user was null and stays null
setUser(hasUser) ==
    /\ hasUser => selectPending < MaxSelects
    /\ isAuthenticated' = hasUser
    /\ IF hasUser \/ isAuthenticated
       THEN loadLogs(hasUser)
       ELSE UNCHANGED <<logs, selectPending>>

\* the two effects of the mount: the first calls getUser and subscribes to
\* the auth changes, the second runs loadLogs with no user yet
mountEffects ==
    /\ pc = "mount"
    /\ pc' = "page"
    /\ sessionPending' = TRUE
    /\ loadLogs(FALSE)
    /\ lastOp' = "mount"
    /\ UNCHANGED <<streakData, now, tz, walk, calls, stored, lastSubmit,
                   isAuthenticated, pendingSignOuts, isSubmitting,
                   editingTimestamp, editTimestampValue, currentPage,
                   isSimplifiedMode, simplifiedStored, insertPending,
                   lastAccepted>>

\* supabase.auth.getUser() answered, with a user or with none
getUserAnswered(hasUser) ==
    /\ pc = "page"
    /\ sessionPending
    /\ sessionPending' = FALSE
    /\ setUser(hasUser)
    /\ lastOp' = "getUser"
    /\ UNCHANGED <<streakData, now, tz, walk, calls, pc, stored, lastSubmit,
                   pendingSignOuts, isSubmitting, editingTimestamp,
                   editTimestampValue, currentPage, isSimplifiedMode,
                   simplifiedStored, insertPending, lastAccepted>>

\* supabase.auth.getUser() rejected: getUser ends before its setUser
getUserRejected ==
    /\ pc = "page"
    /\ sessionPending
    /\ sessionPending' = FALSE
    /\ lastOp' = "getUser rejected"
    /\ UNCHANGED <<logs, streakData, now, tz, walk, calls, pc, stored,
                   lastSubmit, isAuthenticated, pendingSignOuts, isSubmitting,
                   editingTimestamp, editTimestampValue, currentPage,
                   isSimplifiedMode, simplifiedStored, insertPending,
                   selectPending, lastAccepted>>

\* the callback given to onAuthStateChange, called by the auth client with
\* a session or with none
onAuthStateChangeSupabase(hasSession) ==
    /\ pc = "page"
    /\ setUser(hasSession)
    /\ lastOp' = "onAuthStateChange"
    /\ UNCHANGED <<streakData, now, tz, walk, calls, pc, stored, lastSubmit,
                   pendingSignOuts, sessionPending, isSubmitting,
                   editingTimestamp, editTimestampValue, currentPage,
                   isSimplifiedMode, simplifiedStored, insertPending,
                   lastAccepted>>

\* a select of loadLogs answered with rows: they become the logs
selectAnswered(rows) ==
    /\ pc = "page"
    /\ selectPending > 0
    /\ selectPending' = selectPending - 1
    /\ logs' = rows
    /\ lastOp' = "select answered"
    /\ UNCHANGED <<streakData, now, tz, walk, calls, pc, stored, lastSubmit,
                   isAuthenticated, pendingSignOuts, sessionPending,
                   isSubmitting, editingTimestamp, editTimestampValue,
                   currentPage, isSimplifiedMode, simplifiedStored,
                   insertPending, lastAccepted>>

\* a select of loadLogs answered with an error: fallback to localStorage
selectReturnedError ==
    /\ pc = "page"
    /\ selectPending > 0
    /\ selectPending' = selectPending - 1
    /\ logs' = IF stored # Null THEN stored[1] ELSE logs
    /\ lastOp' = "select returned error"
    /\ UNCHANGED <<streakData, now, tz, walk, calls, pc, stored, lastSubmit,
                   isAuthenticated, pendingSignOuts, sessionPending,
                   isSubmitting, editingTimestamp, editTimestampValue,
                   currentPage, isSimplifiedMode, simplifiedStored,
                   insertPending, lastAccepted>>

\* the await of a select rejected: loadLogs has no catch and sets nothing
selectRejected ==
    /\ pc = "page"
    /\ selectPending > 0
    /\ selectPending' = selectPending - 1
    /\ lastOp' = "select rejected"
    /\ UNCHANGED <<logs, streakData, now, tz, walk, calls, pc, stored,
                   lastSubmit, isAuthenticated, pendingSignOuts,
                   sessionPending, isSubmitting, editingTimestamp,
                   editTimestampValue, currentPage, isSimplifiedMode,
                   simplifiedStored, insertPending, lastAccepted>>

\* the Next button of this variant, rendered with the pagination and
\* disabled on the last page
goToNextPageSupabase ==
    /\ pc = "page"
    /\ showPagination
    /\ currentPage # totalPages
    /\ currentPage' = IF currentPage < totalPages THEN currentPage + 1
                      ELSE currentPage
    /\ lastOp' = "goToNextPage"
    /\ UNCHANGED <<logs, streakData, now, tz, walk, calls, pc, stored,
                   lastSubmit, isAuthenticated, pendingSignOuts,
                   sessionPending, isSubmitting, editingTimestamp,
                   editTimestampValue, isSimplifiedMode, simplifiedStored,
                   insertPending, selectPending, lastAccepted>>

\* the Previous button of this variant, rendered with the pagination and
\* disabled on page 1
goToPrevPageSupabase ==
    /\ pc = "page"
    /\ showPagination
    /\ currentPage # 1
    /\ currentPage' = IF currentPage > 1 THEN currentPage - 1 ELSE currentPage
    /\ lastOp' = "goToPrevPage"
    /\ UNCHANGED <<logs, streakData, now, tz, walk, calls, pc, stored,
                   lastSubmit, isAuthenticated, pendingSignOuts,
                   sessionPending, isSubmitting, editingTimestamp,
                   editTimestampValue, isSimplifiedMode, simplifiedStored,
                   insertPending, selectPending, lastAccepted>>

\* handleSubmit up to its await of the insert or, signed out, to its end;
\* the button is disabled while a submit is under way
handleSubmitSupabase ==
    /\ pc = "page"
    /\ insertPending = Null
    /\ IF lastSubmit # Null /\ now - lastSubmit[1] < RateLimitMs
       THEN /\ lastOp' = "handleSubmit rejected"
            /\ UNCHANGED <<logs, stored, lastSubmit, currentPage,
                           insertPending, lastAccepted>>
       ELSE LET newLog == [id |-> now, timestamp |-> now]
                updatedLogs == <<newLog>> \o logs
            IN  /\ Len(logs) < LogsCap
                /\ lastSubmit' = Some(now)
                /\ IF isAuthenticated
                   THEN /\ insertPending' = Some([newLog |-> newLog, logs |-> logs])
                        /\ lastOp' = "handleSubmit awaiting insert"
                        /\ UNCHANGED <<logs, stored, currentPage, lastAccepted>>
                   ELSE /\ logs' = updatedLogs
                        /\ stored' = Some(updatedLogs)
                        /\ currentPage' = 1
                        /\ lastAccepted' = Some(newLog.id)
                        /\ lastOp' = "handleSubmit local"
                        /\ UNCHANGED insertPending
    /\ UNCHANGED <<streakData, now, tz, walk, calls, pc, isAuthenticated,
                   pendingSignOuts, sessionPending, isSubmitting,
                   editingTimestamp, editTimestampValue, isSimplifiedMode,
                   simplifiedStored, selectPending>>

\* the insert resolved without error
insertSucceeded ==
    /\ pc = "page"
    /\ insertPending # Null
    /\ logs' = <<insertPending[1].newLog>> \o insertPending[1].logs
    /\ currentPage' = 1
    /\ insertPending' = Null
    /\ lastAccepted' = Some(insertPending[1].newLog.id)
    /\ lastOp' = "insert succeeded"
    /\ UNCHANGED <<streakData, now, tz, walk, calls, pc, stored, lastSubmit,
                   isAuthenticated, pendingSignOuts, sessionPending,
                   isSubmitting, editingTimestamp, editTimestampValue,
                   isSimplifiedMode, simplifiedStored, selectPending>>

\* the insert resolved with an error: fallback to localStorage
insertReturnedError ==
    /\ pc = "page"
    /\ insertPending # Null
    /\ logs' = <<insertPending[1].newLog>> \o insertPending[1].logs
    /\ stored' = Some(<<insertPending[1].newLog>> \o insertPending[1].logs)
    /\ currentPage' = 1
    /\ insertPending' = Null
    /\ lastAccepted' = Some(insertPending[1].newLog.id)
    /\ lastOp' = "insert returned error"
    /\ UNCHANGED <<streakData, now, tz, walk, calls, pc, lastSubmit,
                   isAuthenticated, pendingSignOuts, sessionPending,
                   isSubmitting, editingTimestamp, editTimestampValue,
                   isSimplifiedMode, simplifiedStored, selectPending>>

\* the await threw: the catch block reports the failure and saves nothing
insertThrew ==
    /\ pc = "page"
    /\ insertPending # Null
    /\ insertPending' = Null
    /\ lastOp' = "insert threw"
    /\ UNCHANGED <<logs, streakData, now, tz, walk, calls, pc, stored,
                   lastSubmit, isAuthenticated, pendingSignOuts,
                   sessionPending, isSubmitting, editingTimestamp,
                   editTimestampValue, currentPage, isSimplifiedMode,
                   simplifiedStored, selectPending, lastAccepted>>

\* handleLogout up to its await of signOut; the button is shown to a
\* signed-in user
handleLogoutSupabase ==
    /\ pc = "page"
    /\ isAuthenticated
    /\ pendingSignOuts < MaxPending
    /\ pendingSignOuts' = pendingSignOuts + 1
    /\ lastOp' = "handleLogout awaiting signOut"
    /\ UNCHANGED <<logs, streakData, now, tz, walk, calls, pc, stored,
                   lastSubmit, isAuthenticated, sessionPending, isSubmitting,
                   editingTimestamp, editTimestampValue, currentPage,
                   isSimplifiedMode, simplifiedStored, insertPending,
                   selectPending, lastAccepted>>

\* signOut resolved: the menu is closed and the router is sent to '/'; the
\* user, the logs and localStorage are left to the auth callback
signOutResolvedSupabase ==
    /\ pc = "page"
    /\ pendingSignOuts > 0
    /\ pendingSignOuts' = pendingSignOuts - 1
    /\ lastOp' = "signOut resolved"
    /\ UNCHANGED <<logs, streakData, now, tz, walk, calls, pc, stored,
                   lastSubmit, isAuthenticated, sessionPending, isSubmitting,
                   editingTimestamp, editTimestampValue, currentPage,
                   isSimplifiedMode, simplifiedStored, insertPending,
                   selectPending, lastAccepted>>

\* signOut rejected: handleLogout has no catch and ends there
signOutRejectedSupabase ==
    /\ pc = "page"
    /\ pendingSignOuts > 0
    /\ pendingSignOuts' = pendingSignOuts - 1
    /\ lastOp' = "signOut rejected"
    /\ UNCHANGED <<logs, streakData, now, tz, walk, calls, pc, stored,
                   lastSubmit, isAuthenticated, sessionPending, isSubmitting,
                   editingTimestamp, editTimestampValue, currentPage,
                   isSimplifiedMode, simplifiedStored, insertPending,
                   selectPending, lastAccepted>>

SupabaseNext ==
    \/ mountEffects
    \/ \E hasUser \in BOOLEAN : getUserAnswered(hasUser)
    \/ getUserRejected
    \/ \E hasSession \in BOOLEAN : onAuthStateChangeSupabase(hasSession)
    \/ \E rows \in ServerRows(now) : selectAnswered(rows)
    \/ selectReturnedError
    \/ selectRejected
    \/ goToNextPageSupabase
    \/ goToPrevPageSupabase
    \/ handleSubmitSupabase
    \/ insertSucceeded
    \/ insertReturnedError
    \/ insertThrew
    \/ handleLogoutSupabase
    \/ signOutResolvedSupabase
    \/ signOutRejectedSupabase
    \/ Tick

SupabaseSpec == SupabaseInit /\ [][SupabaseNext]_vars

---------------------------------------------------------------------------
(* Vocabulary of the properties, defined on the input and not on the       *)
(* engine's intermediate values                                            *)

ThirtySixHours == 36 * MsPerHour

\* the chronologically latest instant of a non-empty entry list
LatestInstant(ls) ==
    CHOOSE t \in Timestamps(ls) : \A u \in Timestamps(ls) : u <= t

\* local calendar day of an instant in the viewer's zone
LocalDay(t) == (t + tz) \div MsPerDay

DaysLogged(ls) == {LocalDay(ls[i].timestamp) : i \in 1..Len(ls)}

EntriesOn(ls, d) ==
    Cardinality({i \in 1..Len(ls) : LocalDay(ls[i].timestamp) = d})

\* the i-th day of the distinct days ordered newest first
NthNewestDay(ls, i) ==
    CHOOSE d \in DaysLogged(ls) :
        Cardinality({e \in DaysLogged(ls) : e > d}) = i - 1

\* the n newest distinct days
NewestDays(ls, n) ==
    {d \in DaysLogged(ls) : Cardinality({e \in DaysLogged(ls) : e > d}) < n}

\* every day of the n newest is within 36 hours of the day before it in the
\* walk, days being measured at their local midnights
UnbrokenPrefix(ls, n) ==
    \A i \in 2..n :
        (NthNewestDay(ls, i - 1) - NthNewestDay(ls, i)) * MsPerDay <= ThirtySixHours

LongestUnbrokenPrefix(ls) ==
    CHOOSE n \in 1..Cardinality(DaysLogged(ls)) :
        /\ UnbrokenPrefix(ls, n)
        /\ \A m \in (n + 1)..Cardinality(DaysLogged(ls)) : ~UnbrokenPrefix(ls, m)

SetMin(S) == CHOOSE x \in S : \A y \in S : x <= y

Capped(n) == IF n > 8 THEN 8 ELSE n

Computed == pc = "done" /\ logs # <<>>

\* the streak-active outcome: the grace check passed and the walk ran
StreakActive == Computed /\ streakData.dayCount >= 1

---------------------------------------------------------------------------
(* C1: if the latest entry lies more than 36 hours before now, the engine  *)
(* returns the broken-streak summary (all counts 0, tier 1, no start date, *)
(* lastLogDate populated).                                                 *)
C1_BrokenBeyond36Hours ==
    (Computed /\ now - LatestInstant(logs) > ThirtySixHours)
        => streakData = [dailiesCount |-> 0, dayCount |-> 0, weekCount |-> 0,
                         monthCount |-> 0, yearCount |-> 0, currentTier |-> 1,
                         lastLogDate |-> Some(LatestInstant(logs)),
                         streakStartDate |-> Null]

(* C2: if the latest entry lies at most 36 hours before now, the streak is *)
(* active (dayCount >= 1), also when today has no entry.                   *)
C2_ActiveWithinGrace ==
    (Computed /\ now - LatestInstant(logs) <= ThirtySixHours)
        => streakData.dayCount >= 1

C2_Witness ==
    /\ Computed
    /\ now - LatestInstant(logs) = 35 * MsPerHour
    /\ LocalDay(now) \notin DaysLogged(logs)
    /\ streakData.dayCount >= 1

(* C3: in every streak-active summary currentTier is the minimum, over     *)
(* exactly the days counted in dayCount, of the day's entry count capped   *)
(* at 8.                                                                   *)
C3_TierIsMinimum ==
    StreakActive =>
        streakData.currentTier =
            SetMin({Capped(EntriesOn(logs, d)) :
                        d \in NewestDays(logs, streakData.dayCount)})

\* two counted days, the newest with more entries than the older one: the
\* tier is the smaller count and not the newest day's
C3_Witness ==
    /\ StreakActive
    /\ streakData.dayCount = 2
    /\ EntriesOn(logs, NthNewestDay(logs, 1)) = 2
    /\ EntriesOn(logs, NthNewestDay(logs, 2)) = 1
    /\ streakData.currentTier = 1

\* the oldest day counted in the streak
StreakStartDay == NthNewestDay(logs, streakData.dayCount)

\* the entry list without the entries on days older than the streak
WithoutOlderDays ==
    SelectSeq(logs, LAMBDA e : LocalDay(e.timestamp) >= StreakStartDay)

\* instants on days that a gap separates from the streak
OlderInstants == {t \in Instants : LocalDay(t) <= StreakStartDay - 2}

WithEntryAt(t) == Append(logs, [id |-> Len(logs) + 1, timestamp |-> t])

SameStreak(a, b) ==
    /\ a.dayCount = b.dayCount
    /\ a.currentTier = b.currentTier
    /\ a.streakStartDate = b.streakStartDate

(* C4 as stated: dayCount is the length of the longest prefix of the       *)
(* distinct days, newest first, in which every day is within 36 hours of   *)
(* the day before it, and entries on days older than the gap change none   *)
(* of dayCount, currentTier, dailiesCount, streakStartDate.                *)
C4_Original ==
    StreakActive =>
        /\ streakData.dayCount = LongestUnbrokenPrefix(logs)
        /\ \A ls \in {WithoutOlderDays} \cup {WithEntryAt(t) : t \in OlderInstants} :
              LET r == calculateStreakFromLogs(ls, now, tz)
              IN  SameStreak(r, streakData) /\ r.dailiesCount = streakData.dailiesCount

(* C4 amended: as above, except that dailiesCount is unchanged only when   *)
(* today's calendar day is not itself older than the gap.                  *)
C4_WalkStopsAtFirstGap ==
    StreakActive =>
        /\ streakData.dayCount = LongestUnbrokenPrefix(logs)
        /\ \A ls \in {WithoutOlderDays} \cup {WithEntryAt(t) : t \in OlderInstants} :
              LET r == calculateStreakFromLogs(ls, now, tz)
              IN  /\ SameStreak(r, streakData)
                  /\ LocalDay(now) > StreakStartDay - 2
                        => r.dailiesCount = streakData.dailiesCount

\* three distinct days, the oldest behind a gap: two days are counted
C4_Witness ==
    /\ StreakActive
    /\ Cardinality(DaysLogged(logs)) = 3
    /\ streakData.dayCount = 2
    /\ NthNewestDay(logs, 3) <= StreakStartDay - 2
    /\ LocalDay(now) = NthNewestDay(logs, 1)

\* the instants of the list in increasing order, one per distinct instant
NthInstant(ls, i) ==
    CHOOSE t \in Timestamps(ls) :
        Cardinality({u \in Timestamps(ls) : u < t}) = i - 1

(* C5: a history whose entries each lie at most 36 hours of elapsed time   *)
(* after the previous one, and whose latest entry is inside the grace      *)
(* window, is one unbroken streak: dayCount is the number of distinct      *)
(* calendar days.                                                          *)
C5_DriftingStreakAccepted ==
    (/\ Computed
     /\ \A i \in 2..Cardinality(Timestamps(logs)) :
            NthInstant(logs, i) - NthInstant(logs, i - 1) <= ThirtySixHours
     /\ now >= LatestInstant(logs)
     /\ now - LatestInstant(logs) <= ThirtySixHours)
        => streakData.dayCount = Cardinality(DaysLogged(logs))

Permuted(ls, p) == [i \in 1..Len(ls) |-> ls[p[i]]]

Swapped(ls, i, j) ==
    [k \in 1..Len(ls) |-> IF k = i THEN ls[j] ELSE IF k = j THEN ls[i] ELSE ls[k]]

(* C6: for a fixed evaluation instant every reordering of the entry list   *)
(* gives the same summary in all eight fields.  Every permutation of a     *)
(* list of up to PermLen entries is tried, and every transposition of a    *)
(* longer list.                                                            *)
C6_OrderIndependent ==
    pc = "done" =>
        IF Len(logs) <= PermLen
        THEN \A p \in Permutations(1..Len(logs)) :
                 calculateStreakFromLogs(Permuted(logs, p), now, tz) = streakData
        ELSE \A i \in 1..Len(logs) : \A j \in (i + 1)..Len(logs) :
                 calculateStreakFromLogs(Swapped(logs, i, j), now, tz) = streakData

\* a list given oldest first, on three different days
C6_Witness ==
    /\ StreakActive
    /\ Len(logs) = 3
    /\ logs[1].timestamp < logs[2].timestamp
    /\ logs[2].timestamp < logs[3].timestamp
    /\ Cardinality(DaysLogged(logs)) = 3
    /\ streakData.lastLogDate = Some(logs[3].timestamp)

(* C9: per-day counts are capped at 8: dailiesCount is in 0..8 and         *)
(* currentTier in 1..8 for every input, and a day with more than 8 entries *)
(* contributes exactly 8 to dailiesCount and to the tier minimum.          *)
DailiesDay ==
    IF LocalDay(now) \in DaysLogged(logs) THEN LocalDay(now)
    ELSE NthNewestDay(logs, 1)

C9_CappedAtEight ==
    pc = "done" =>
        /\ streakData.dailiesCount \in 0..8
        /\ streakData.currentTier \in 1..8
        /\ (StreakActive /\ EntriesOn(logs, DailiesDay) > 8)
              => streakData.dailiesCount = 8
        /\ (StreakActive /\ \E d \in NewestDays(logs, streakData.dayCount) :
                                EntriesOn(logs, d) > 8)
              => streakData.currentTier =
                    SetMin({IF EntriesOn(logs, d) > 8 THEN 8 ELSE EntriesOn(logs, d) :
                               d \in NewestDays(logs, streakData.dayCount)})

\* nine entries on the only day
C9_Witness ==
    /\ StreakActive
    /\ EntriesOn(logs, NthNewestDay(logs, 1)) = 9
    /\ streakData.dailiesCount = 8
    /\ streakData.currentTier = 8

(* C10 as stated: for every input dailiesCount is the capped number of     *)
(* entries on today's calendar day when today has an entry, and otherwise  *)
(* the capped number of entries on the most recent distinct day.           *)
C10_Original ==
    Computed => streakData.dailiesCount = Capped(EntriesOn(logs, DailiesDay))

(* C10 amended: the same, in the streak-active outcome (the broken-streak  *)
(* summary has dailiesCount 0).                                            *)
C10_DailiesCount ==
    StreakActive => streakData.dailiesCount = Capped(EntriesOn(logs, DailiesDay))

\* today has no entry and the most recent day has two
C10_Witness ==
    /\ StreakActive
    /\ LocalDay(now) \notin DaysLogged(logs)
    /\ EntriesOn(logs, NthNewestDay(logs, 1)) = 2
    /\ streakData.dailiesCount = 2

(* C7: in every reachable state of the page the displayed summary equals  *)
(* calculateStreakFromLogs applied to the current log list at the current  *)
(* instant; no copy goes stale as time passes.                             *)
C7_SummaryAlwaysCurrent ==
    pc \in {"mount", "page"} =>
        streakData = calculateStreakFromLogs(logs, now, tz)

(* C8: immediately after every accepted handleSubmit and every accepted    *)
(* saveTimestampEdit, streakData is the engine's summary of the complete   *)
(* updated list, the list that was just stored.                            *)
C8_RecomputedOnMutation ==
    lastOp \in {"handleSubmit", "saveTimestampEdit"} =>
        /\ stored = Some(logs)
        /\ streakData = calculateStreakFromLogs(logs, now, tz)

\* an entry was submitted in this visit, then a timestamp was edited, and
\* the summary counts both days of the edited list
C8_Witness ==
    /\ lastOp = "saveTimestampEdit"
    /\ lastSubmit # Null
    /\ Len(logs) = 2
    /\ \E i \in 1..Len(logs) : logs[i].id # logs[i].timestamp
    /\ streakData.dayCount = 2

(* C11: for every non-empty input, in the active and in the broken         *)
(* outcome alike, lastLogDate is the timestamp of the chronologically      *)
(* latest entry, whatever the order of the input list.                     *)
C11_LastLogDateIsLatest ==
    Computed => streakData.lastLogDate = Some(LatestInstant(logs))

\* an oldest-first list whose newest entry is too old: the broken summary
\* still carries the newest instant, which is the list's last element
C11_Witness ==
    /\ Computed
    /\ Len(logs) >= 2
    /\ logs[1].timestamp < logs[Len(logs)].timestamp
    /\ streakData.dayCount = 0
    /\ streakData.lastLogDate = Some(logs[Len(logs)].timestamp)

(* C12: weekCount is floor(dayCount / 7), monthCount is floor(weekCount /  *)
(* 4) and yearCount is floor(monthCount / 12): each count is derived from  *)
(* the one before it (a dayCount of 29 gives 4, 1 and 0).                  *)
C12_NestedDivisions ==
    pc = "done" =>
        /\ streakData.weekCount = streakData.dayCount \div 7
        /\ streakData.monthCount = streakData.weekCount \div 4
        /\ streakData.yearCount = streakData.monthCount \div 12

\* twenty-nine consecutive logged days
C12_Witness ==
    /\ pc = "done"
    /\ Len(logs) = 29
    /\ streakData.dayCount = 29
    /\ streakData.weekCount = 4
    /\ streakData.monthCount = 1
    /\ streakData.yearCount = 0

(* C13: whenever dayCount is 0 (the empty input and the broken streak),    *)
(* currentTier is 1 and streakStartDate is null.                           *)
C13_NeutralTierAndStart ==
    (pc = "done" /\ streakData.dayCount = 0)
        => (streakData.currentTier = 1 /\ streakData.streakStartDate = Null)

\* a broken streak: entries were logged, none recently enough
C13_Witness ==
    /\ Computed
    /\ streakData.dayCount = 0
    /\ streakData.lastLogDate # Null
    /\ streakData.currentTier = 1
    /\ streakData.streakStartDate = Null

(* C14: in the streak-active outcome streakStartDate is the date of the    *)
(* oldest counted day, the dayCount-th day of the distinct days ordered    *)
(* newest first; with a dayCount of 1 it is the most recent day.           *)
C14_StartIsOldestCountedDay ==
    StreakActive =>
        /\ streakData.streakStartDate =
               Some(NthNewestDay(logs, streakData.dayCount))
        /\ streakData.dayCount = 1 =>
               streakData.streakStartDate = Some(LocalDay(LatestInstant(logs)))

\* three logged days, the two newest counted: the start is the middle one
C14_Witness ==
    /\ StreakActive
    /\ Cardinality(DaysLogged(logs)) = 3
    /\ streakData.dayCount = 2
    /\ streakData.streakStartDate = Some(NthNewestDay(logs, 2))
    /\ streakData.streakStartDate # Some(LocalDay(LatestInstant(logs)))

\* the list with k more entries at instant t
WithEntriesAt(t, k) ==
    logs \o [i \in 1..k |-> [id |-> Len(logs) + i, timestamp |-> t]]

\* instants on the day before the streak's earliest day
TailInstants == {t \in Instants : LocalDay(t) = StreakStartDay - 1}

(* C15: for a fixed now, adding entries on the older day that is           *)
(* consecutive with the streak's earliest day never gives a currentTier    *)
(* larger than the one before.                                             *)
C15_TierNeverGrowsAtTail ==
    StreakActive =>
        \A t \in TailInstants : \A k \in 1..2 :
            calculateStreakFromLogs(WithEntriesAt(t, k), now, tz).currentTier
                <= streakData.currentTier

\* a streak of tier 2 that one entry on the day before extends by a day and
\* takes down to tier 1
C15_Witness ==
    /\ StreakActive
    /\ streakData.currentTier = 2
    /\ \E t \in TailInstants :
           LET longer == calculateStreakFromLogs(WithEntriesAt(t, 1), now, tz)
           IN  /\ longer.dayCount = streakData.dayCount + 1
               /\ longer.currentTier = 1

(* C16: for the empty list the engine returns exactly the neutral summary: *)
(* every count 0, currentTier 1, lastLogDate and streakStartDate null.     *)
C16_EmptyListNeutral ==
    (pc = "done" /\ logs = <<>>)
        => /\ DOMAIN streakData =
                  {"dailiesCount", "dayCount", "weekCount", "monthCount",
                   "yearCount", "currentTier", "lastLogDate", "streakStartDate"}
           /\ streakData.dailiesCount = 0
           /\ streakData.dayCount = 0
           /\ streakData.weekCount = 0
           /\ streakData.monthCount = 0
           /\ streakData.yearCount = 0
           /\ streakData.currentTier = 1
           /\ streakData.lastLogDate = Null
           /\ streakData.streakStartDate = Null

\* the engine was applied to the empty list
C16_Witness ==
    /\ pc = "done"
    /\ Len(logs) = 0
    /\ streakData.currentTier = 1
    /\ streakData.lastLogDate = Null

(* C17: for a list holding a single entry timestamped at now, dailiesCount *)
(* is 1, dayCount is 1, currentTier is 1 and weekCount, monthCount and     *)
(* yearCount are 0.                                                        *)
C17_SingleEntryAtNow ==
    (pc = "done" /\ Len(logs) = 1 /\ logs[1].timestamp = now)
        => /\ streakData.dailiesCount = 1
           /\ streakData.dayCount = 1
           /\ streakData.currentTier = 1
           /\ streakData.weekCount = 0
           /\ streakData.monthCount = 0
           /\ streakData.yearCount = 0

\* the first entry ever, evaluated at the instant it was made
C17_Witness ==
    /\ pc = "done"
    /\ Timestamps(logs) = {now}
    /\ Len(logs) = 1
    /\ streakData.dailiesCount = 1
    /\ streakData.dayCount = 1

\* instant t falls on calendar date d of the viewer's wall clock, which
\* shows t + tz
OnLocalDate(t, d) == d * MsPerDay <= t + tz /\ t + tz < (d + 1) * MsPerDay

OnUtcDate(t, d) == d * MsPerDay <= t /\ t < (d + 1) * MsPerDay

(* C18: entries are bucketed by the viewer's local calendar date and not   *)
(* by the UTC date: two entries share a bucket exactly when their local    *)
(* dates are equal, and a day's count is the number of entries on that     *)
(* local date.                                                             *)
C18_BucketsAreLocalDates ==
    Computed =>
        LET sortedLogs == sortedLogsOf(logs)
            byDate == logsByDateOf(sortedLogs, tz)
            uniqueDates == uniqueDatesOf(sortedLogs, tz)
        IN  /\ \A i \in 1..Len(logs) :
                   \E k \in DOMAIN byDate : OnLocalDate(logs[i].timestamp, k)
            /\ \A k \in DOMAIN byDate :
                   byDate[k] = Cardinality({i \in 1..Len(logs) :
                                    OnLocalDate(logs[i].timestamp, k)})
            /\ {uniqueDates[n] : n \in 1..Len(uniqueDates)} = DOMAIN byDate
            /\ \A i, j \in 1..Len(logs) :
                   (toDateString(logs[i].timestamp, tz)
                        = toDateString(logs[j].timestamp, tz))
                   <=> (\E d \in DOMAIN byDate :
                            /\ OnLocalDate(logs[i].timestamp, d)
                            /\ OnLocalDate(logs[j].timestamp, d))

\* west of Greenwich, two entries an hour apart on one UTC date, the first
\* before local midnight and the second after it: two days are counted, with
\* one entry each
C18_Witness ==
    /\ Computed
    /\ tz = -MsPerHour
    /\ Len(logs) = 2
    /\ \E d \in 0..MaxDay : \A i \in 1..2 : OnUtcDate(logs[i].timestamp, d)
    /\ streakData.dayCount = 2
    /\ streakData.dailiesCount = 1
    /\ streakData.currentTier = 1

\* a value of the StreakData interface
IsSummary(s) ==
    /\ DOMAIN s = {"dailiesCount", "dayCount", "weekCount", "monthCount",
                   "yearCount", "currentTier", "lastLogDate", "streakStartDate"}
    /\ s.dailiesCount \in Nat
    /\ s.dayCount \in Nat
    /\ s.weekCount \in Nat
    /\ s.monthCount \in Nat
    /\ s.yearCount \in Nat
    /\ s.currentTier \in Nat
    /\ s.lastLogDate = Null \/ (Len(s.lastLogDate) = 1 /\ s.lastLogDate[1] \in Int)
    /\ s.streakStartDate = Null
           \/ (Len(s.streakStartDate) = 1 /\ s.streakStartDate[1] \in Int)

(* C19: the engine is total and terminating.  For every finite list, the   *)
(* empty one included, a call that has entered its walk leads to its       *)
(* return; what it returns is a summary, the one the engine function       *)
(* gives; and the walk's loop body is entered at most as many times as     *)
(* there are distinct days.                                                *)
C19_TotalAndTerminating ==
    /\ [](pc = "walk" =>
              walk[1].iterations <= Cardinality(DaysLogged(logs)))
    /\ [](pc = "done" =>
              /\ IsSummary(streakData)
              /\ streakData = calculateStreakFromLogs(logs, now, tz)
              /\ walk # Null =>
                     walk[1].iterations <= Cardinality(DaysLogged(logs)))
    /\ (pc = "walk") ~> (pc = "done")

\* a walk over three distinct days that ran to the end of the list: three
\* iterations, then the return
C19_Witness ==
    /\ pc = "done"
    /\ walk # Null
    /\ Cardinality(DaysLogged(logs)) = 3
    /\ walk[1].iterations = 3
    /\ ~walk[1].broke
    /\ streakData.dayCount = 3

\* the step belongs to a call of the engine: an entry, a pass through the
\* loop or a return
EngineCallStep ==
    calls' # calls

(* C20: the engine owns no state and does not modify its input.  Whatever  *)
(* the order in which the statements of several callers' calls are taken,  *)
(* a step of a call leaves the list it was passed and the page's list,     *)
(* order and contents, and every piece of page state as they were, touches *)
(* no other caller's call, and each call returns what the engine gives,    *)
(* called alone, on the list that call was passed.                         *)
C20_CallsIndependent ==
    [][EngineCallStep =>
          /\ logs' = logs
          /\ streakData' = streakData
          /\ now' = now /\ tz' = tz
          /\ stored' = stored /\ lastSubmit' = lastSubmit
          /\ simplifiedStored' = simplifiedStored
          /\ isAuthenticated' = isAuthenticated
          /\ pendingSignOuts' = pendingSignOuts
          /\ sessionPending' = sessionPending
          /\ isSubmitting' = isSubmitting
          /\ editingTimestamp' = editingTimestamp
          /\ editTimestampValue' = editTimestampValue
          /\ currentPage' = currentPage
          /\ isSimplifiedMode' = isSimplifiedMode
          /\ \E c \in Callers : \A d \in Callers \ {c} : calls'[d] = calls[d]
          /\ \A c \in Callers :
                 /\ calls[c].phase = "walk" => calls'[c].input = calls[c].input
                 /\ (calls[c].phase # "walk" /\ calls'[c] # calls[c])
                        => calls'[c].input = logs
                 /\ calls'[c].phase = "returned"
                        => calls'[c].result =
                               Some(calculateStreakFromLogs(calls'[c].input,
                                                            now, tz))]_vars

\* two calls at once on different snapshots: the first caller, passed a
\* one-entry list, is in the middle of its loop, while the second, passed
\* the longer oldest-first list the page holds now, has run and returned a
\* two-day streak; the page's list is still oldest first
C20_Witness ==
    /\ calls[1].phase = "walk"
    /\ calls[1].locals[1].i = 2
    /\ Len(calls[1].input) = 1
    /\ calls[2].phase = "returned"
    /\ calls[2].input = logs
    /\ Len(logs) = 2
    /\ calls[2].result[1].dayCount = 2
    /\ sortedLogsOf(logs) # logs

\* the step is a call of saveTimestampEdit, whatever its outcome
SaveTimestampEditStep ==
    lastOp' \in {"saveTimestampEdit", "saveTimestampEdit rejected",
                 "saveTimestampEdit empty"}

(* C21: saveTimestampEdit rejects a future timestamp: called with an edit  *)
(* value later than the current instant it leaves logs, the stored         *)
(* 'tea-logs' list and streakData unchanged and the edit open; called with *)
(* an empty edit value it does nothing either.                             *)
C21_FutureEditRejected ==
    [][(/\ SaveTimestampEditStep
        /\ \/ editTimestampValue = Null
           \/ parseDateTimeLocal(editTimestampValue[1], tz) > now)
           => /\ logs' = logs
              /\ stored' = stored
              /\ streakData' = streakData
              /\ editingTimestamp' = editingTimestamp
              /\ editingTimestamp' # Null
              /\ editTimestampValue' = editTimestampValue]_vars

\* a save was tried with a value a day ahead of the clock: the row is still
\* open for editing and still carries its old timestamp
C21_Witness ==
    /\ lastOp = "saveTimestampEdit rejected"
    /\ editingTimestamp # Null
    /\ editTimestampValue # Null
    /\ parseDateTimeLocal(editTimestampValue[1], tz) >= now + MsPerDay
    /\ \A i \in 1..Len(logs) : logs[i].timestamp <= now
    /\ stored = Some(logs)

\* the step is a call of handleSubmit, accepted or not
HandleSubmitStep == lastOp' \in {"handleSubmit", "handleSubmit rejected"}

(* C22: client-side rate limiting holds over every sequence of operations: *)
(* a handleSubmit made less than 5000 ms after the last accepted one adds  *)
(* no entry, so any two created entries are at least 5000 ms apart.        *)
C22_RateLimitHolds ==
    [][(/\ HandleSubmitStep
        /\ lastAccepted # Null
        /\ now - lastAccepted[1] < 5000)
           => logs' = logs]_vars

(* C30: in every state of the page after its mount, under any sequence of  *)
(* goToNextPage, goToPrevPage, handleSubmit, saveTimestampEdit and         *)
(* handleLogout, 1 <= currentPage <= max(1, ceil(logs.length / 10)), so    *)
(* the slice of rows shown is not empty while logs is not.                 *)
C30_CurrentPageInRange ==
    pc = "page" =>
        /\ 1 <= currentPage
        /\ currentPage <= Max(1, (Len(logs) + 9) \div 10)
        /\ logs # <<>> =>
               \E i \in 1..Len(logs) :
                   (currentPage - 1) * 10 < i /\ i <= currentPage * 10

\* the second page of a history of eleven rows, showing its one row
C30_Witness ==
    /\ pc = "page"
    /\ Len(logs) = ItemsPerPage + 1
    /\ currentPage = 2
    /\ lastOp = "goToNextPage"

(* C23: after a successful handleLogout all user data is cleared: logs is  *)
(* empty, streakData is the neutral summary, currentPage is 1, simplified  *)
(* mode is off and the localStorage keys 'tea-logs', 'last-tea-submit' and *)
(* 'tea-simplified-mode' are absent; if signOut throws, none of these is   *)
(* changed.                                                                *)
C23_LogoutClearsUserData ==
    [][/\ lastOp' = "handleLogout done" =>
              /\ logs' = <<>>
              /\ streakData' =
                     [dailiesCount |-> 0, dayCount |-> 0, weekCount |-> 0,
                      monthCount |-> 0, yearCount |-> 0, currentTier |-> 1,
                      lastLogDate |-> Null, streakStartDate |-> Null]
              /\ currentPage' = 1
              /\ isSimplifiedMode' = FALSE
              /\ stored' = Null
              /\ lastSubmit' = Null
              /\ simplifiedStored' = Null
       /\ lastOp' = "handleLogout failed" =>
              /\ logs' = logs
              /\ streakData' = streakData
              /\ currentPage' = currentPage
              /\ isSimplifiedMode' = isSimplifiedMode
              /\ stored' = stored
              /\ lastSubmit' = lastSubmit
              /\ simplifiedStored' = simplifiedStored]_vars

\* a failed logout on the second page of a long history in simplified mode:
\* everything is still there
C23_FailedLogoutReached ==
    /\ lastOp = "handleLogout failed"
    /\ Len(logs) > 10
    /\ stored = Some(logs)
    /\ streakData.dayCount >= 1
    /\ currentPage = 2
    /\ isSimplifiedMode
    /\ simplifiedStored = Some(TRUE)
    /\ lastSubmit # Null

\* a successful logout that followed a submit of this visit
C23_Witness ==
    /\ lastOp = "handleLogout done"
    /\ lastAccepted # Null
    /\ logs = <<>>
    /\ stored = Null
    /\ lastSubmit = Null
    /\ simplifiedStored = Null
    /\ currentPage = 1

\* the step ends an accepted submit of the Supabase-backed page whose
\* insert, if one was made, succeeded or returned an error
SubmitCompletedStep ==
    lastOp' \in {"insert succeeded", "insert returned error",
                 "handleSubmit local"}

\* the entry of the most recent accepted submit is in the logs in memory
AcceptedInLogs ==
    lastAccepted # Null =>
        \E i \in 1..Len(logs) : logs[i].id = lastAccepted[1]

(* C24: in the Supabase-backed handleSubmit an accepted submission is      *)
(* never lost from the history: once its entry is made it stays in the     *)
(* logs in memory; whether the insert succeeds or returns an error, the    *)
(* new entry is prepended to the logs in memory, and when the insert       *)
(* returns an error or the user is not signed in the whole updated list is *)
(* written to localStorage 'tea-logs' too.                                 *)
C24_AcceptedSubmitKept ==
    /\ []AcceptedInLogs
    /\ [][SubmitCompletedStep =>
             /\ logs' = <<[id |-> lastAccepted'[1],
                           timestamp |-> lastAccepted'[1]]>> \o logs
             /\ lastOp' \in {"insert returned error", "handleSubmit local"}
                    => stored' = Some(logs')]_vars

(* C25: right after every accepted handleSubmit, whatever the history      *)
(* before it, the recomputed streakData is streak-active: dayCount >= 1    *)
(* and dailiesCount >= 1.                                                  *)
C25_ActiveAfterSubmit ==
    lastOp = "handleSubmit" =>
        (streakData.dayCount >= 1 /\ streakData.dailiesCount >= 1)

\* a submit on top of a history whose streak had broken two days before
C25_Witness ==
    /\ lastOp = "handleSubmit"
    /\ Len(logs) = 2
    /\ logs[1].timestamp = now
    /\ now - logs[2].timestamp >= 2 * MsPerDay
    /\ streakData.dayCount = 1
    /\ streakData.dailiesCount = 1

\* the most recent logged day
LatestDay(ls) == NthNewestDay(ls, 1)

\* the grace check on the input: the most recent logged day is today or is
\* not before the calendar date of the instant 36 hours ago
GracePassed ==
    \/ LatestDay(logs) = LocalDay(now)
    \/ LatestDay(logs) >= LocalDay(now - ThirtySixHours)

(* C26: for every non-empty input whose most recent day passes the grace   *)
(* check, dayCount >= 1, dailiesCount >= 1, streakStartDate is not null    *)
(* and dayCount is at most the number of distinct calendar days of the     *)
(* input; so dayCount is 0 exactly for the empty input and for the         *)
(* streak-broken outcome.                                                  *)
C26_ActiveOutcomeShape ==
    /\ (Computed /\ GracePassed) =>
           /\ streakData.dayCount >= 1
           /\ streakData.dailiesCount >= 1
           /\ streakData.streakStartDate # Null
           /\ streakData.dayCount <= Cardinality(DaysLogged(logs))
    /\ pc = "done" =>
           (streakData.dayCount = 0 <=> (logs = <<>> \/ ~GracePassed))

\* today has no entry, yesterday has one, and an older day is cut off by a
\* gap: one day counted out of two
C26_Witness ==
    /\ Computed
    /\ GracePassed
    /\ LatestDay(logs) = LocalDay(now) - 1
    /\ Cardinality(DaysLogged(logs)) = 2
    /\ streakData.dayCount = 1
    /\ streakData.dailiesCount >= 1
    /\ streakData.streakStartDate = Some(LatestDay(logs))

\* no entry is dated on a calendar day after the evaluation day
NoLaterDay == \A d \in DaysLogged(logs) : d <= LocalDay(now)

(* C27: in every streak-active summary computed from a history with no     *)
(* entry dated on a calendar day after the evaluation day, currentTier <=  *)
(* dailiesCount.                                                           *)
C27_TierAtMostDailies ==
    (StreakActive /\ NoLaterDay) => streakData.currentTier <= streakData.dailiesCount

\* today has no entry, yesterday has two and the day before has one: the
\* tier is 1 and the count shown is yesterday's 2
C27_Witness ==
    /\ StreakActive
    /\ NoLaterDay
    /\ LocalDay(now) \notin DaysLogged(logs)
    /\ streakData.dayCount = 2
    /\ streakData.currentTier = 1
    /\ streakData.dailiesCount = 2

(* C28: starting from a stored history with no future-dated entry and a    *)
(* clock that never goes back, after any sequence of handleSubmit,         *)
(* saveTimestampEdit and handleLogout no entry in logs has a timestamp     *)
(* later than the current instant.                                         *)
C28_NoFutureEntry ==
    pc = "page" => \A i \in 1..Len(logs) : logs[i].timestamp <= now

\* an accepted edit has just moved an older entry onto the current instant,
\* the latest value the handler lets through
C28_Witness ==
    /\ pc = "page"
    /\ lastOp = "saveTimestampEdit"
    /\ \E i \in 1..Len(logs) : logs[i].id < now /\ logs[i].timestamp = now

\* the list under 'tea-logs', an absent key counting as the empty list
storedLogs == IF stored = Null THEN <<>> ELSE stored[1]

(* C29: after the initial load, in every state reached by any sequence of  *)
(* handleSubmit, saveTimestampEdit and handleLogout, accepted or rejected, *)
(* the list stored under 'tea-logs' equals the in-memory logs, an absent   *)
(* key counting as the empty list.                                         *)
C29_StoredEqualsLogs ==
    pc = "page" => storedLogs = logs

\* an accepted edit has just rewritten an entry of a two-entry history and
\* the stored list carries the edited timestamp
C29_Witness ==
    /\ pc = "page"
    /\ lastOp = "saveTimestampEdit"
    /\ Len(logs) = 2
    /\ stored = Some(logs)
    /\ \E i \in 1..Len(logs) : logs[i].timestamp # logs[i].id

=============================================================================
